---------------------------- MODULE Spec2Model ----------------------------
(***************************************************************************)
(* The timeframe pricing pipeline of The-Sports-Market                     *)
(* (src/timeframe_algorithm.py, src/weekly_algorithm.py,                   *)
(* src/monthly_algorithm.py, src/timeframe_test_algorithm.py) and the menu *)
(* layer that calls it (src/main.py).                                      *)
(*                                                                         *)
(* Numbers.  The program computes with Python floats: IEEE-754 binary      *)
(* floating point, every operation rounded to the nearest representable    *)
(* value, ties to even.  The model keeps exactly that arithmetic, with a   *)
(* significand of Prec bits (CPython's float has 53; TLC's integers are    *)
(* 32 bits wide, so the significand is narrower here).  A number is the    *)
(* record [m, e] standing for m * 2^e, m = 0 or 2^(Prec-1) <= |m| < 2^Prec,*)
(* so that two numbers are equal exactly when their records are.  The      *)
(* exponent is unbounded, but for the power raw_delta**2, which raises     *)
(* OverflowError as Python does when its result has no finite float; no    *)
(* other operation of the pipeline overflows or underflows on the inputs   *)
(* used here.                                                              *)
(***************************************************************************)
EXTENDS Integers, Sequences, FiniteSets, TLC

\* Width of the significand, in bits.
Prec == 11

-----------------------------------------------------------------------------
(* Floating-point arithmetic *)

Pow2(k) == 2^k

RECURSIVE BitLen(_)
BitLen(n) == IF n = 0 THEN 0 ELSE 1 + BitLen(n \div 2)

IAbs(n) == IF n < 0 THEN 0 - n ELSE n

Zero == [m |-> 0, e |-> 0]

\* n * 2^e for an integer n >= 0, rounded to Prec bits, ties to even.
RoundNat(n, e) ==
    LET b == BitLen(n) IN
    IF n = 0 THEN Zero
    ELSE IF b <= Prec THEN [m |-> n * Pow2(Prec - b), e |-> e - (Prec - b)]
    ELSE LET s  == b - Prec
             q  == n \div Pow2(s)
             r  == n % Pow2(s)
             h  == Pow2(s - 1)
             q2 == IF r > h \/ (r = h /\ q % 2 = 1) THEN q + 1 ELSE q
         IN IF q2 = Pow2(Prec) THEN [m |-> Pow2(Prec - 1), e |-> e + s + 1]
                               ELSE [m |-> q2, e |-> e + s]

FNeg(a) == [m |-> 0 - a.m, e |-> a.e]

\* n * 2^e for any integer n, rounded.
RoundInt(n, e) == IF n < 0 THEN FNeg(RoundNat(0 - n, e)) ELSE RoundNat(n, e)

\* (num / den) * 2^e for integers num >= 0, den > 0, rounded once: the
\* quotient is taken to Prec + 2 bits and the remainder kept as a sticky bit.
RoundRat(num, den, e) ==
    IF num = 0 THEN Zero
    ELSE LET k == Prec + 1 + BitLen(den) - BitLen(num)
             q == IF k >= 0 THEN (num * Pow2(k)) \div den
                            ELSE num \div (den * Pow2(0 - k))
             r == IF k >= 0 THEN (num * Pow2(k)) % den
                            ELSE num % (den * Pow2(0 - k))
         IN RoundNat(2 * q + (IF r = 0 THEN 0 ELSE 1), e - k - 1)

\* int -> float
FInt(n) == RoundInt(n, 0)

\* A decimal literal n / 10^d of the source, as the float the parser yields.
Dec(n, d) == IF n < 0 THEN FNeg(RoundRat(0 - n, 10^d, 0)) ELSE RoundRat(n, 10^d, 0)

FAbs(a) == [m |-> IAbs(a.m), e |-> a.e]

FAdd(a, b) ==
    IF a.m = 0 THEN b
    ELSE IF b.m = 0 THEN a
    ELSE LET hi == IF a.e >= b.e THEN a ELSE b
             lo == IF a.e >= b.e THEN b ELSE a
             d  == hi.e - lo.e
         IN IF d > Prec + 2 THEN hi
            ELSE RoundInt(hi.m * Pow2(d) + lo.m, lo.e)

FSub(a, b) == FAdd(a, FNeg(b))

FMul(a, b) == RoundInt(a.m * b.m, a.e + b.e)

\* a / b for b # 0 (Python raises ZeroDivisionError for b = 0: the callers
\* of FDiv test for it).
FDiv(a, b) ==
    LET q == RoundRat(IAbs(a.m), IAbs(b.m), a.e - b.e)
    IN IF (a.m < 0) # (b.m < 0) THEN FNeg(q) ELSE q

RECURSIVE ISqrtFrom(_, _, _)
\* The largest r with r * r <= n, given that res * res <= n and bit a power of 2.
ISqrtFrom(n, res, bit) ==
    IF bit = 0 THEN res
    ELSE IF (res + bit) * (res + bit) <= n THEN ISqrtFrom(n, res + bit, bit \div 2)
    ELSE ISqrtFrom(n, res, bit \div 2)

ISqrt(n) == ISqrtFrom(n, 0, Pow2(Prec + 2))

\* math.sqrt(a) for a > 0, correctly rounded.
FSqrt(a) ==
    LET s == IF (a.e - (Prec + 2)) % 2 = 0 THEN Prec + 2 ELSE Prec + 3
        n == a.m * Pow2(s)
        r == ISqrt(n)
    IN RoundNat(2 * r + (IF r * r = n THEN 0 ELSE 1), ((a.e - s) \div 2) - 1)

Sign(a) == IF a.m > 0 THEN 1 ELSE IF a.m < 0 THEN 0 - 1 ELSE 0

\* a < b
FLt(a, b) ==
    IF Sign(a) # Sign(b) THEN Sign(a) < Sign(b)
    ELSE IF Sign(a) = 0 THEN FALSE
    ELSE IF Sign(a) > 0 THEN a.e < b.e \/ (a.e = b.e /\ a.m < b.m)
    ELSE a.e > b.e \/ (a.e = b.e /\ a.m < b.m)

FLe(a, b) == a = b \/ FLt(a, b)
FGe(a, b) == FLe(b, a)
FGt(a, b) == FLt(b, a)

\* Python's max(a, b) and min(a, b): the first argument unless the second
\* is strictly larger (smaller).
FMax(a, b) == IF FGt(b, a) THEN b ELSE a
FMin(a, b) == IF FLt(b, a) THEN b ELSE a

-----------------------------------------------------------------------------
(* Constants of the source, and the parameter tables *)

\* Stat order of every 7-tuple: (pts, reb, ast, to, stocks, threepm, ts%);
\* the dicts of the source are keyed by these names, in this order.
StatNames == <<"pts", "reb", "ast", "to", "stocks", "threepm", "ts%">>
Keys == {StatNames[i] : i \in 1..7}

\* Python's None for player_archetype.
None == "None"

\* A variable, local or field that holds nothing yet.
Unset == <<>>

Archetypes ==
    {"Superstars", "Elite Shooters", "Elite Defenders", "High Volume Scorers",
     "Elite Playmakers", "Rebounding Machines", "Bench Warmers",
     "High Efficiency", "Turnover Prone", "One Dimensional", "Versatile",
     "Role Players"}

\* `not player_archetype`: None and the empty string are falsy.
Falsy(a) == a = None \/ a = ""

\* A dict literal over the seven keys, its values decimal literals in
\* thousandths.
Milli(p, r, a, t, s, th, ts) ==
    [k \in Keys |->
        CASE k = "pts" -> p [] k = "reb" -> r [] k = "ast" -> a [] k = "to" -> t
          [] k = "stocks" -> s [] k = "threepm" -> th [] OTHER -> ts]

\* The dict a literal evaluates to: every value the float of its literal.
AsFloats(t) == [k \in Keys |-> Dec(t[k], 3)]

Half == Dec(5, 1)
One == FInt(1)

-----------------------------------------------------------------------------
(* Stage 1: projection *)

\* 0.5 * season_avg[i] + 0.5 * recent_avg[i] for every field.
Blend(season_avg, recent_avg) ==
    [i \in 1..7 |-> FAdd(FMul(Half, season_avg[i]), FMul(Half, recent_avg[i]))]

\* [stat * mult for stat in projected]
Scale(projected, mult) == [i \in 1..7 |-> FMul(projected[i], mult)]

\* The monthly projection adjustments: the multiplier an archetype has,
\* in units of 10^-5, or 0 when the chain has no branch for it.
MonthlyMultiplier(a) ==
    CASE a = "Superstars" -> 102120
      [] a = "Elite Shooters" -> 100200
      [] a = "Elite Defenders" -> 99685
      [] a = "Elite Playmakers" -> 102000
      [] a = "Rebounding Machines" -> 99900
      [] a = "Turnover Prone" -> 98850
      [] a = "One Dimensional" -> 100800
      [] a = "Versatile" -> 103250
      [] a = "Role Players" -> 100350
      [] a = "High Volume Scorers" -> 100100
      [] a = "High Efficiency" -> 100080
      [] OTHER -> 0

\* The weekly projection multipliers, likewise.
WeeklyMultiplier(a) ==
    CASE a = "Superstars" -> 103500
      [] a = "Elite Playmakers" -> 103500
      [] a = "Versatile" -> 104500
      [] a = "One Dimensional" -> 101050
      [] a = "Role Players" -> 101000
      [] a = "Turnover Prone" -> 98000
      [] a = "Rebounding Machines" -> 98500
      [] a = "High Volume Scorers" -> 99500
      [] a = "Bench Warmers" -> 100300
      [] a = "Elite Shooters" -> 99750
      [] OTHER -> 0

ValidTimeframes == {"weekly", "monthly", "season"}

\* The projection with the second chain applied for every timeframe: its
\* branches without "and timeframe == 'weekly'".
Projected_both(season_avg, recent_avg, timeframe, use_2023_stats, player_archetype) ==
    LET first ==
            IF timeframe = "weekly" THEN Blend(season_avg, recent_avg)
            ELSE IF timeframe = "monthly"
            THEN LET blended == Blend(season_avg, recent_avg)
                     mm      == MonthlyMultiplier(player_archetype)
                 IN IF mm = 0 THEN blended ELSE Scale(blended, Dec(mm, 5))
            ELSE IF use_2023_stats THEN season_avg ELSE season_avg
        wm == WeeklyMultiplier(player_archetype)
    IN IF wm # 0 THEN Scale(first, Dec(wm, 5)) ELSE first

\* The projection with the current-season branch of season taking the
\* recent averages.
Projected_recent(season_avg, recent_avg, timeframe, use_2023_stats, player_archetype) ==
    LET first ==
            IF timeframe = "weekly" THEN Blend(season_avg, recent_avg)
            ELSE IF timeframe = "monthly"
            THEN LET blended == Blend(season_avg, recent_avg)
                     mm      == MonthlyMultiplier(player_archetype)
                 IN IF mm = 0 THEN blended ELSE Scale(blended, Dec(mm, 5))
            ELSE IF use_2023_stats THEN season_avg ELSE recent_avg
        wm == WeeklyMultiplier(player_archetype)
    IN IF timeframe = "weekly" /\ wm # 0 THEN Scale(first, Dec(wm, 5)) ELSE first

\* The projection of calculate_projected_stats for a weekly, monthly or
\* season timeframe.
Projected(season_avg, recent_avg, timeframe, use_2023_stats, player_archetype) ==
    LET first ==
            IF timeframe = "weekly" THEN Blend(season_avg, recent_avg)
            ELSE IF timeframe = "monthly"
            THEN LET blended == Blend(season_avg, recent_avg)
                     mm      == MonthlyMultiplier(player_archetype)
                 IN IF mm = 0 THEN blended ELSE Scale(blended, Dec(mm, 5))
            ELSE (* season: list(season_avg) on both branches of use_2023_stats *)
                 IF use_2023_stats THEN season_avg ELSE season_avg
        wm == WeeklyMultiplier(player_archetype)
    IN IF timeframe = "weekly" /\ wm # 0 THEN Scale(first, Dec(wm, 5)) ELSE first

\* The projection with any other timeframe tag taken for season.
calculate_projected_stats_lenient(season_avg, recent_avg, timeframe, use_2023_stats, player_archetype) ==
    [raised |-> "",
     value  |-> Projected(season_avg, recent_avg, timeframe, use_2023_stats,
                          player_archetype)]

\* TimeframeAlgorithm.calculate_projected_stats: the projected tuple, or
\* the ValueError it raises.
calculate_projected_stats(season_avg, recent_avg, timeframe, use_2023_stats, player_archetype) ==
    IF timeframe \notin ValidTimeframes
    THEN [raised |-> "ValueError"]
    ELSE [raised |-> "",
          value  |-> Projected(season_avg, recent_avg, timeframe, use_2023_stats,
                               player_archetype)]

-----------------------------------------------------------------------------
(* Stage 2: dispersion *)

WeeklyDefaultAlphas == Milli(1418, 945, 945, 958, 958, 958, 70)
MonthlyDefaultAlphas == Milli(809, 539, 539, 547, 547, 547, 70)
\* The season coefficients taken from the weekly defaults.
SeasonAlphas_as_weekly == Milli(1418, 945, 945, 958, 958, 958, 70)
SeasonAlphas == Milli(794, 529, 529, 537, 537, 537, 70)

\* The index of the maximum taken as the last one that holds it.
SignatureIndex_last(projected_stats) ==
    CHOOSE i \in 1..6 :
        /\ \A j \in 1..6 : FLe(projected_stats[j], projected_stats[i])
        /\ \A j \in (i + 1)..6 : projected_stats[j] # projected_stats[i]

\* stats.index(max(stats)) over the six non-shooting projected values: the
\* first index that holds the maximum.
SignatureIndex(projected_stats) ==
    CHOOSE i \in 1..6 :
        /\ \A j \in 1..6 : FLe(projected_stats[j], projected_stats[i])
        /\ \A j \in 1..(i - 1) : projected_stats[j] # projected_stats[i]

\* The boost without the copy: alphas is default_alphas itself.
BoostSignature_in_place(default_alphas, projected_stats) ==
    LET signature_stat == StatNames[SignatureIndex(projected_stats)]
        alphas == [default_alphas EXCEPT
                     ![signature_stat] = FMul(default_alphas[signature_stat], Dec(108, 2))]
    IN [alphas |-> alphas, default_alphas |-> alphas]

\* alphas = default_alphas.copy(); alphas[signature_stat] *= 1.08: the dict
\* returned, and default_alphas as the statements leave it.
BoostSignature(default_alphas, projected_stats) ==
    LET signature_stat == StatNames[SignatureIndex(projected_stats)]
        alphas == default_alphas
    IN [alphas |-> [alphas EXCEPT
                      ![signature_stat] = FMul(alphas[signature_stat], Dec(108, 2))],
        default_alphas |-> default_alphas]

\* TimeframeAlgorithm._get_weekly_alphas
get_weekly_alphas(player_archetype, projected_stats) ==
    IF Falsy(player_archetype) THEN AsFloats(WeeklyDefaultAlphas)
    ELSE CASE player_archetype = "Superstars" ->
                AsFloats(Milli(1600, 1100, 1100, 958, 958, 958, 70))
           [] player_archetype = "Versatile" ->
                AsFloats(Milli(1702, 1134, 1134, 1150, 1150, 1150, 84))
           [] player_archetype = "Elite Playmakers" ->
                AsFloats(Milli(1418, 945, 1200, 958, 958, 958, 70))
           [] player_archetype = "High Volume Scorers" ->
                AsFloats(Milli(1300, 945, 945, 958, 958, 958, 70))
           [] player_archetype = "Rebounding Machines" ->
                AsFloats(Milli(1418, 850, 945, 958, 958, 958, 70))
           [] player_archetype = "Bench Warmers" ->
                AsFloats(Milli(1021, 680, 680, 689, 689, 689, 50))
           [] player_archetype = "Turnover Prone" ->
                AsFloats(Milli(1418, 945, 945, 1100, 958, 958, 70))
           [] player_archetype = "One Dimensional" ->
                BoostSignature(AsFloats(WeeklyDefaultAlphas), projected_stats).alphas
           [] player_archetype = "Role Players" ->
                AsFloats(Milli(1489, 992, 992, 1006, 1006, 1006, 74))
           [] OTHER -> AsFloats(WeeklyDefaultAlphas)

\* The monthly lookup with the defaults for One Dimensional.
get_monthly_alphas_no_override(player_archetype) ==
    IF Falsy(player_archetype) THEN AsFloats(MonthlyDefaultAlphas)
    ELSE CASE player_archetype = "Superstars" ->
                AsFloats(Milli(1011, 674, 674, 684, 684, 684, 88))
           [] player_archetype = "Elite Shooters" ->
                AsFloats(Milli(833, 555, 555, 563, 563, 563, 72))
           [] player_archetype = "Elite Playmakers" ->
                AsFloats(Milli(971, 647, 647, 656, 656, 656, 84))
           [] player_archetype = "Turnover Prone" ->
                AsFloats(Milli(769, 512, 512, 520, 520, 520, 67))
           [] player_archetype = "One Dimensional" ->
                AsFloats(MonthlyDefaultAlphas)
           [] player_archetype = "Versatile" ->
                AsFloats(Milli(1011, 674, 674, 684, 684, 684, 88))
           [] player_archetype = "Role Players" ->
                AsFloats(Milli(849, 566, 566, 574, 574, 574, 74))
           [] OTHER -> AsFloats(MonthlyDefaultAlphas)

\* TimeframeAlgorithm._get_monthly_alphas (the code after its first
\* if/elif/else chain is unreachable: every branch of the chain returns).
get_monthly_alphas(player_archetype) ==
    IF Falsy(player_archetype) THEN AsFloats(MonthlyDefaultAlphas)
    ELSE CASE player_archetype = "Superstars" ->
                AsFloats(Milli(1011, 674, 674, 684, 684, 684, 88))
           [] player_archetype = "Elite Shooters" ->
                AsFloats(Milli(833, 555, 555, 563, 563, 563, 72))
           [] player_archetype = "Elite Playmakers" ->
                AsFloats(Milli(971, 647, 647, 656, 656, 656, 84))
           [] player_archetype = "Turnover Prone" ->
                AsFloats(Milli(769, 512, 512, 520, 520, 520, 67))
           [] player_archetype = "One Dimensional" ->
                AsFloats(Milli(890, 593, 593, 602, 602, 602, 77))
           [] player_archetype = "Versatile" ->
                AsFloats(Milli(1011, 674, 674, 684, 684, 684, 88))
           [] player_archetype = "Role Players" ->
                AsFloats(Milli(849, 566, 566, 574, 574, 574, 74))
           [] OTHER -> AsFloats(MonthlyDefaultAlphas)

\* The local default_alphas of the alpha lookup when the lookup returns; the
\* season branch of calculate_standard_deviations has no such dict.
DefaultAlphasAtReturn(projected_stats, timeframe, player_archetype) ==
    IF timeframe = "weekly"
    THEN IF player_archetype = "One Dimensional"
         THEN BoostSignature(AsFloats(WeeklyDefaultAlphas), projected_stats).default_alphas
         ELSE AsFloats(WeeklyDefaultAlphas)
    ELSE IF timeframe = "monthly" THEN AsFloats(MonthlyDefaultAlphas)
    ELSE Unset

\* The selection with the monthly lookup, archetype and all, for season too.
Alphas_season_as_monthly(projected_stats, timeframe, player_archetype) ==
    IF timeframe = "weekly" THEN get_weekly_alphas(player_archetype, projected_stats)
    ELSE get_monthly_alphas(player_archetype)

\* The alphas calculate_standard_deviations selects.
Alphas(projected_stats, timeframe, player_archetype) ==
    IF timeframe = "weekly" THEN get_weekly_alphas(player_archetype, projected_stats)
    ELSE IF timeframe = "monthly" THEN get_monthly_alphas(player_archetype)
    ELSE AsFloats(SeasonAlphas)

\* The dispersion with the floor of the projected value at 0 instead of 0.1.
Sigma_floor0(alpha, value) == FMul(alpha, FSqrt(FMax(value, Zero)))

\* alphas[k] * math.sqrt(max(value, 0.1))
Sigma(alpha, value) == FMul(alpha, FSqrt(FMax(value, Dec(1, 1))))

\* TimeframeAlgorithm.calculate_standard_deviations
calculate_standard_deviations(projected_stats, timeframe, player_archetype) ==
    LET alphas == Alphas(projected_stats, timeframe, player_archetype)
    IN [k \in Keys |->
          IF k = "ts%" THEN alphas[k]
          ELSE Sigma(alphas[k], projected_stats[CHOOSE i \in 1..6 : StatNames[i] = k])]

-----------------------------------------------------------------------------
(* Stage 3: actual per-game averages *)

\* The averages with a guard: no games, no division.
calculate_actual_averages_guarded(actual_totals, num_games) ==
    [raised |-> "",
     value  |-> IF num_games = 0 THEN actual_totals
                ELSE [i \in 1..7 |-> FDiv(actual_totals[i], FInt(num_games))]]

\* TimeframeAlgorithm.calculate_actual_averages: total / num_games for every
\* total, or the ZeroDivisionError of the first division when num_games = 0.
calculate_actual_averages(actual_totals, num_games) ==
    IF num_games = 0
    THEN [raised |-> "ZeroDivisionError"]
    ELSE [raised |-> "",
          value  |-> [i \in 1..7 |-> FDiv(actual_totals[i], FInt(num_games))]]

-----------------------------------------------------------------------------
(* Stage 4: scores *)

\* The z-scores with the turnover score computed like the others.
calculate_z_scores_to_like_others(actual_avg, projected_stats, std_devs) ==
    [k \in Keys |->
        LET i == CHOOSE j \in 1..7 : StatNames[j] = k
        IN FDiv(FSub(actual_avg[i], projected_stats[i]), std_devs[k])]

\* The z-scores with the true-shooting score inverted as well.
calculate_z_scores_ts_inverted(actual_avg, projected_stats, std_devs) ==
    [k \in Keys |->
        LET i == CHOOSE j \in 1..7 : StatNames[j] = k
        IN IF k \in {"to", "ts%"}
           THEN FDiv(FSub(projected_stats[i], actual_avg[i]), std_devs[k])
           ELSE FDiv(FSub(actual_avg[i], projected_stats[i]), std_devs[k])]

\* TimeframeAlgorithm.calculate_z_scores
calculate_z_scores(actual_avg, projected_stats, std_devs) ==
    [k \in Keys |->
        LET i == CHOOSE j \in 1..7 : StatNames[j] = k
        IN IF k = "to"
           THEN FDiv(FSub(projected_stats[i], actual_avg[i]), std_devs[k])
           ELSE FDiv(FSub(actual_avg[i], projected_stats[i]), std_devs[k])]

DefaultWeights == Milli(450, 150, 150, 50, 100, 50, 50)

\* TimeframeAlgorithm._get_archetype_weights, in thousandths.
get_archetype_weights(player_archetype) ==
    CASE player_archetype = "Superstars" -> Milli(350, 125, 125, 75, 125, 100, 100)
      [] player_archetype = "Elite Shooters" -> Milli(450, 150, 150, 50, 100, 50, 50)
      [] player_archetype = "Elite Defenders" -> Milli(450, 150, 150, 50, 100, 50, 50)
      [] player_archetype = "High Volume Scorers" -> Milli(425, 125, 125, 50, 75, 100, 100)
      [] player_archetype = "Elite Playmakers" -> Milli(375, 150, 225, 50, 100, 50, 50)
      [] player_archetype = "Rebounding Machines" -> Milli(375, 150, 225, 50, 100, 50, 50)
      [] player_archetype = "Bench Warmers" -> Milli(200, 175, 175, 50, 150, 100, 150)
      [] player_archetype = "High Efficiency" -> Milli(450, 125, 150, 50, 100, 50, 75)
      [] player_archetype = "Turnover Prone" -> Milli(450, 150, 150, 25, 100, 50, 75)
      [] player_archetype = "One Dimensional" -> Milli(350, 175, 175, 50, 125, 30, 95)
      [] player_archetype = "Versatile" -> Milli(350, 125, 125, 75, 125, 100, 100)
      [] player_archetype = "Role Players" -> Milli(425, 175, 175, 50, 75, 50, 50)
      [] OTHER -> Milli(450, 150, 150, 50, 100, 50, 50)

\* The weights calculate_pps uses, in thousandths.
Weights(player_archetype) ==
    IF Falsy(player_archetype) THEN DefaultWeights
    ELSE get_archetype_weights(player_archetype)

\* WeeklyAlgorithm._get_archetype_weights, in thousandths.
WeeklyAlgorithm_get_archetype_weights(player_archetype) ==
    CASE player_archetype = "Superstars" -> Milli(350, 125, 125, 75, 125, 100, 100)
      [] player_archetype = "Elite Shooters" -> Milli(450, 150, 150, 50, 100, 50, 50)
      [] player_archetype = "Elite Defenders" -> Milli(450, 150, 150, 50, 100, 50, 50)
      [] player_archetype = "High Volume Scorers" -> Milli(425, 125, 125, 50, 75, 100, 100)
      [] player_archetype = "Elite Playmakers" -> Milli(375, 150, 225, 50, 100, 50, 50)
      [] player_archetype = "Rebounding Machines" -> Milli(375, 150, 225, 50, 100, 50, 50)
      [] player_archetype = "Bench Warmers" -> Milli(200, 175, 175, 50, 150, 100, 150)
      [] player_archetype = "High Efficiency" -> Milli(450, 125, 150, 50, 100, 50, 75)
      [] player_archetype = "Turnover Prone" -> Milli(450, 150, 150, 25, 100, 50, 75)
      [] player_archetype = "One Dimensional" -> Milli(350, 175, 175, 50, 125, 30, 95)
      [] player_archetype = "Versatile" -> Milli(350, 125, 125, 75, 125, 100, 100)
      [] player_archetype = "Role Players" -> Milli(425, 175, 175, 50, 75, 50, 50)
      [] OTHER -> Milli(450, 150, 150, 50, 100, 50, 50)

\* The monthly table with one three-pointer weight raised by 0.02.
MonthlyAlgorithm_get_archetype_weights_off(player_archetype) ==
    CASE player_archetype = "Superstars" -> Milli(350, 125, 125, 75, 125, 100, 100)
      [] player_archetype = "Elite Shooters" -> Milli(450, 150, 150, 50, 100, 50, 50)
      [] player_archetype = "Elite Defenders" -> Milli(450, 150, 150, 50, 100, 50, 50)
      [] player_archetype = "High Volume Scorers" -> Milli(425, 125, 125, 50, 75, 100, 100)
      [] player_archetype = "Elite Playmakers" -> Milli(375, 150, 225, 50, 100, 50, 50)
      [] player_archetype = "Rebounding Machines" -> Milli(375, 150, 225, 50, 100, 50, 50)
      [] player_archetype = "Bench Warmers" -> Milli(200, 175, 175, 50, 150, 100, 150)
      [] player_archetype = "High Efficiency" -> Milli(450, 125, 150, 50, 100, 50, 75)
      [] player_archetype = "Turnover Prone" -> Milli(450, 150, 150, 25, 100, 50, 75)
      [] player_archetype = "One Dimensional" -> Milli(350, 175, 175, 50, 125, 50, 95)
      [] player_archetype = "Versatile" -> Milli(350, 125, 125, 75, 125, 100, 100)
      [] player_archetype = "Role Players" -> Milli(425, 175, 175, 50, 75, 50, 50)
      [] OTHER -> Milli(450, 150, 150, 50, 100, 50, 50)

\* MonthlyAlgorithm._get_archetype_weights, in thousandths.
MonthlyAlgorithm_get_archetype_weights(player_archetype) ==
    CASE player_archetype = "Superstars" -> Milli(350, 125, 125, 75, 125, 100, 100)
      [] player_archetype = "Elite Shooters" -> Milli(450, 150, 150, 50, 100, 50, 50)
      [] player_archetype = "Elite Defenders" -> Milli(450, 150, 150, 50, 100, 50, 50)
      [] player_archetype = "High Volume Scorers" -> Milli(425, 125, 125, 50, 75, 100, 100)
      [] player_archetype = "Elite Playmakers" -> Milli(375, 150, 225, 50, 100, 50, 50)
      [] player_archetype = "Rebounding Machines" -> Milli(375, 150, 225, 50, 100, 50, 50)
      [] player_archetype = "Bench Warmers" -> Milli(200, 175, 175, 50, 150, 100, 150)
      [] player_archetype = "High Efficiency" -> Milli(450, 125, 150, 50, 100, 50, 75)
      [] player_archetype = "Turnover Prone" -> Milli(450, 150, 150, 25, 100, 50, 75)
      [] player_archetype = "One Dimensional" -> Milli(350, 175, 175, 50, 125, 30, 95)
      [] player_archetype = "Versatile" -> Milli(350, 125, 125, 75, 125, 100, 100)
      [] player_archetype = "Role Players" -> Milli(425, 175, 175, 50, 75, 50, 50)
      [] OTHER -> Milli(450, 150, 150, 50, 100, 50, 50)

\* WeeklyAlgorithm.calculate_pps and MonthlyAlgorithm.calculate_pps look every
\* archetype up, None included; TimeframeAlgorithm.calculate_pps does not.
LookupWeights(implementation, player_archetype) ==
    CASE implementation = "WeeklyAlgorithm" ->
             WeeklyAlgorithm_get_archetype_weights(player_archetype)
      [] implementation = "MonthlyAlgorithm" ->
             MonthlyAlgorithm_get_archetype_weights(player_archetype)
      [] OTHER -> Weights(player_archetype)

RECURSIVE SumTerms(_, _, _)
\* sum(...) of the source: start + terms[1] + ... + terms[n], left to right,
\* every addition rounded.
SumTerms(terms, n, start) ==
    IF n = 0 THEN start ELSE FAdd(SumTerms(terms, n - 1, start), terms[n])

\* sum(weights[stat] * z_scores[stat] for stat in weights.keys())
WeightedSum(weights, z_scores) ==
    SumTerms([i \in 1..7 |-> FMul(weights[StatNames[i]], z_scores[StatNames[i]])], 7, Zero)

\* TimeframeAlgorithm.calculate_pps
calculate_pps(z_scores, player_archetype) ==
    WeightedSum(AsFloats(Weights(player_archetype)), z_scores)

\* The buys pool with the offset taken off instead of added.
Buys_less(pps) == FSub(FAdd(FInt(50), FMul(FInt(15), pps)), FInt(2))

\* The two demand pools of calculate_dis.
Buys(pps) == FAdd(FAdd(FInt(50), FMul(FInt(15), pps)), FInt(2))
Sells(pps) == FSub(FAdd(FInt(50), FMul(FInt(0 - 15), pps)), FInt(2))

\* The score with each pool kept from going below 0.
calculate_dis_clamped(pps) ==
    LET buys  == FMax(Buys(pps), Zero)
        sells == FMax(Sells(pps), Zero)
    IN IF FAdd(buys, sells) = Zero
       THEN [raised |-> "ZeroDivisionError"]
       ELSE [raised |-> "", value |-> FDiv(FSub(buys, sells), FAdd(buys, sells))]

\* TimeframeAlgorithm.calculate_dis: (buys - sells) / (buys + sells), or the
\* ZeroDivisionError of the division when the rounded sum of the pools is 0.
calculate_dis(pps) ==
    LET buys  == Buys(pps)
        sells == Sells(pps)
    IN IF FAdd(buys, sells) = Zero
       THEN [raised |-> "ZeroDivisionError"]
       ELSE [raised |-> "", value |-> FDiv(FSub(buys, sells), FAdd(buys, sells))]

-----------------------------------------------------------------------------
(* Stage 5: adjustment *)

\* The raw delta without the imbalance score.
calculate_raw_delta_pps_only(pps, dis) == FMul(Dec(8, 1), pps)

\* TimeframeAlgorithm.calculate_raw_delta
calculate_raw_delta(pps, dis) == FAdd(FMul(Dec(8, 1), pps), FMul(Dec(2, 1), dis))

\* The coefficient with 0.1 for a tag that names no archetype.
GainCoefficient_unknown(timeframe, player_archetype) ==
    IF timeframe \in {"weekly", "monthly"}
    THEN CASE player_archetype = "Superstars" -> 50
           [] player_archetype = "One Dimensional" -> 50
           [] player_archetype = "Bench Warmers" -> IF timeframe = "weekly" THEN 10 ELSE 5
           [] player_archetype = "Versatile" -> IF timeframe = "weekly" THEN 80 ELSE 10
           [] player_archetype = "Rebounding Machines" -> 80
           [] player_archetype \in Archetypes \cup {None} -> 50
           [] OTHER -> 10
    ELSE 10

\* The saturation coefficient k of the gain branch, in hundredths.
GainCoefficient(timeframe, player_archetype) ==
    IF timeframe \in {"weekly", "monthly"}
    THEN CASE player_archetype = "Superstars" -> 50
           [] player_archetype = "One Dimensional" -> 50
           [] player_archetype = "Bench Warmers" -> IF timeframe = "weekly" THEN 10 ELSE 5
           [] player_archetype = "Versatile" -> IF timeframe = "weekly" THEN 80 ELSE 10
           [] player_archetype = "Rebounding Machines" -> 80
           [] OTHER -> 50
    ELSE 10

\* The cap of the gain branch.
Cap(timeframe) == IF timeframe \in {"weekly", "monthly"} THEN 10 ELSE 50

\* raw_delta**2
Square(x) == FMul(x, x)

\* Binary64 has no finite value of magnitude 2^MaxExponent or more.
MaxExponent == 1024

\* float ** raises OverflowError where the rounded power is out of range.
OutOfRange(a) == a # Zero /\ BitLen(IAbs(a.m)) + a.e > MaxExponent

\* min(raw_delta / math.sqrt(max(1 - k * raw_delta**2, 0.001)), cap)
GainBranch(raw_delta, k, cap) ==
    FMin(FDiv(raw_delta,
              FSqrt(FMax(FSub(One, FMul(Dec(k, 2), Square(raw_delta))), Dec(1, 3)))),
         FInt(cap))

\* -1 * (abs(raw_delta)**2 / (abs(raw_delta)**2 + 0.18))
LossBranch(raw_delta) ==
    FMul(FInt(0 - 1),
         FDiv(Square(FAbs(raw_delta)), FAdd(Square(FAbs(raw_delta)), Dec(18, 2))))

\* The dampening with the gain rule applied to losses as well.
apply_dampening_one_rule(raw_delta, timeframe, player_archetype) ==
    IF OutOfRange(Square(raw_delta))
    THEN [raised |-> "OverflowError"]
    ELSE [raised |-> "",
          value  |-> GainBranch(raw_delta,
                                GainCoefficient(timeframe, player_archetype),
                                Cap(timeframe))]

\* TimeframeAlgorithm.apply_dampening: the dampened delta, or the OverflowError
\* of raw_delta**2, which either branch evaluates first.
apply_dampening(raw_delta, timeframe, player_archetype) ==
    IF OutOfRange(Square(raw_delta))
    THEN [raised |-> "OverflowError"]
    ELSE [raised |-> "",
          value  |-> IF FGe(raw_delta, Zero)
                     THEN GainBranch(raw_delta,
                                     GainCoefficient(timeframe, player_archetype),
                                     Cap(timeframe))
                     ELSE LossBranch(raw_delta)]

\* The new price without the 1 of 1 + dampened_delta.
calculate_new_price_no_one(old_price, dampened_delta) ==
    [new_price        |-> FMul(old_price, dampened_delta),
     price_change_pct |-> FMul(dampened_delta, FInt(100))]

\* TimeframeAlgorithm.calculate_new_price: (new_price, price_change_pct)
calculate_new_price(old_price, dampened_delta) ==
    [new_price        |-> FMul(old_price, FAdd(One, dampened_delta)),
     price_change_pct |-> FMul(dampened_delta, FInt(100))]

-----------------------------------------------------------------------------
(* Inputs *)

\* Largest num_games the library interface is called with.
MaxGames == 1
\* The extreme totals are 2^BigExp and 2^(BigExp + 10).
BigExp == 12

\* A 7-tuple from decimal literals: six in tenths, ts% in thousandths.
Vec(p, r, a, t, s, th, ts) ==
    <<Dec(p, 1), Dec(r, 1), Dec(a, 1), Dec(t, 1), Dec(s, 1), Dec(th, 1), Dec(ts, 3)>>

\* (season_avg, recent_avg) pairs: a scorer, a rebounder whose largest stat
\* is not the first, and degenerate averages with zero and negative fields.
Scorer     == [season_avg |-> Vec(200, 50, 50, 20, 15, 20, 550),
               recent_avg |-> Vec(220, 60, 50, 20, 15, 20, 580)]
Rebounder  == [season_avg |-> Vec(80, 120, 30, 15, 20, 5, 600),
               recent_avg |-> Vec(90, 110, 30, 15, 20, 5, 610)]
Degenerate == [season_avg |-> Vec(0, 2, 0 - 20, 0, 0, 0, 0),
               recent_avg |-> Vec(0, 0, 0 - 20, 0, 0, 0, 0)]
Profiles == {Scorer, Rebounder, Degenerate}

\* actual_totals: a good and a poor outing, and outings with one extreme total.
GoodTotals  == Vec(250, 60, 60, 10, 20, 30, 600)
PoorTotals  == Vec(50, 10, 10, 60, 0, 0, 300)
CrashTotals == [GoodTotals EXCEPT ![4] = FInt(2^BigExp)]
HugeTotals  == [GoodTotals EXCEPT ![1] = RoundInt(2^BigExp, 10)]
Totals == {GoodTotals, PoorTotals, CrashTotals, HugeTotals}

Prices == {Dec(350, 1), Dec(5, 1)}

\* The timeframe tag with the use_2023_stats flag; "daily" is no timeframe
\* of the algorithm.
TimeframeFlags ==
    {<<"weekly", FALSE>>, <<"monthly", FALSE>>, <<"season", FALSE>>,
     <<"season", TRUE>>, <<"daily", FALSE>>}

\* None, the twelve names, and two strings that are no archetype.
ArchetypeInputs == Archetypes \cup {None, "", "Point Gods"}

Args(totals, games, profile, price, tf, arch) ==
    [actual_totals |-> totals, num_games |-> games,
     season_avg |-> profile.season_avg, recent_avg |-> profile.recent_avg,
     old_price |-> price, timeframe |-> tf[1], use_2023_stats |-> tf[2],
     player_archetype |-> arch]

-----------------------------------------------------------------------------
(* The pipeline, TimeframeAlgorithm.simulate_timeframe, as a state machine *)

VARIABLES
    pc,       \* where the invocation stands: "idle", a stage, "done", "fault"
    caller,   \* the call path that made the invocation
    args,     \* the arguments of the invocation
    locals,   \* the locals of simulate_timeframe assigned so far, and the
              \* default_alphas of the alpha lookup it made
    ret,      \* the dict the invocation returns
    raised,   \* the exception that ended it, and the stage that raised it
    probe,    \* a call of one method on its own: its name, arguments, outcome
    test_results  \* the ledger of the profitability testing mode

vars == <<pc, caller, args, locals, ret, raised, probe, test_results>>

NoLocals ==
    [projected_stats |-> Unset, default_alphas |-> Unset, std_devs |-> Unset,
     actual_avg |-> Unset,
     z_scores |-> Unset, pps |-> Unset, dis |-> Unset, raw_delta |-> Unset,
     dampened_delta |-> Unset, new_price |-> Unset, price_change_pct |-> Unset]

NotRaised == [exc |-> "", stage |-> ""]

\* No invocation of simulate_timeframe is under way, and the testing mode
\* has not set up its ledger.
NoFrame ==
    /\ pc = "idle"
    /\ caller = ""
    /\ args = Unset
    /\ locals = NoLocals
    /\ ret = Unset
    /\ raised = NotRaised
    /\ test_results = Unset

Init == NoFrame /\ probe = Unset

\* A call of simulate_timeframe with arguments a, made by call path c.
Enter(a, c) ==
    /\ pc' = "project"
    /\ caller' = c
    /\ args' = a
    /\ locals' = NoLocals
    /\ ret' = Unset
    /\ raised' = NotRaised
    /\ UNCHANGED <<probe, test_results>>

\* The exception exc caught and the invocation started over.
Raise_retry(exc) ==
    /\ raised' = [exc |-> exc, stage |-> pc]
    /\ pc' = "project"

\* The exception exc leaves simulate_timeframe from the current stage.
Raise(exc) ==
    /\ raised' = [exc |-> exc, stage |-> pc]
    /\ pc' = "fault"

\* A call through the library interface, with any arguments at a price of
\* 35.0 (the menu paths below vary the price).
Call ==
    \E totals \in Totals, games \in 0..MaxGames, profile \in Profiles,
       tf \in TimeframeFlags, arch \in ArchetypeInputs :
        /\ pc = "idle"
        /\ Enter(Args(totals, games, profile, Dec(350, 1), tf, arch), "api")

-----------------------------------------------------------------------------
(* The call paths of the menu and testing layer, SportsMarketSimulator *)

\* Every stored player has random.randint(60, 80) games.
MinStoredGames == 60
MaxStoredGames == 80

\* A stored player: the number of stored games and the two season averages.
StoredPlayers ==
    {[games |-> n, season_avg_2024 |-> p.recent_avg, season_avg_2023 |-> p.season_avg] :
        n \in MinStoredGames..MaxStoredGames, p \in {Scorer, Rebounder}}

\* len(sampled_games): random.sample(games, min(4, len(games))) for weekly,
\* min(12, len(games)) for monthly, all the games for season.
SampledGames(timeframe, games) ==
    IF timeframe = "weekly" THEN (IF games < 4 THEN games ELSE 4)
    ELSE IF timeframe = "monthly" THEN (IF games < 12 THEN games ELSE 12)
    ELSE games

\* actual_totals of n sampled games, taking every sampled game to have the
\* line game.
SampledTotals(game, n) == [i \in 1..7 |-> FMul(FInt(n), game[i])]

\* The lines a stored game has.
GameLines == {Vec(250, 60, 60, 10, 20, 30, 600), Vec(50, 10, 10, 60, 0, 0, 300)}

\* The arguments the three stored-player paths build: the 2023 averages and
\* use_2023_stats=True for season, the 2024 averages otherwise, the recent
\* average from the stored games, and no archetype.
StoredArgs(player, game, price, timeframe) ==
    LET n == SampledGames(timeframe, player.games)
    IN [actual_totals |-> SampledTotals(game, n), num_games |-> n,
        season_avg |-> IF timeframe = "season" THEN player.season_avg_2023
                       ELSE player.season_avg_2024,
        recent_avg |-> game, old_price |-> price, timeframe |-> timeframe,
        use_2023_stats |-> (timeframe = "season"), player_archetype |-> None]

\* run_timeframe_with_player reaches simulate_timeframe.
PlayerCall ==
    \E player \in StoredPlayers, game \in GameLines, price \in Prices,
       timeframe \in ValidTimeframes :
        /\ pc = "idle"
        /\ Enter(StoredArgs(player, game, price, timeframe), "player")

\* run_test_timeframe reaches simulate_timeframe; the price is the investment.
TestCall ==
    \E player \in StoredPlayers, game \in GameLines, investment \in Prices,
       timeframe \in ValidTimeframes :
        /\ pc = "idle"
        /\ Enter(StoredArgs(player, game, investment, timeframe), "test")

\* run_automated_simulations reaches simulate_timeframe for one of its
\* algorithms; the price is the investment amount.
AutoCall ==
    \E player \in StoredPlayers, game \in GameLines, investment \in Prices,
       algorithm \in ValidTimeframes :
        /\ pc = "idle"
        /\ Enter(StoredArgs(player, game, investment, algorithm), "auto")

\* The integers typed for "Number of games" reach down to -MaxGames.
TypedGames == (0 - MaxGames)..MaxGames

\* run_timeframe_custom reaches simulate_timeframe: every argument is what
\* float(input()) or int(input()) made of the text typed.
CustomCall ==
    \E totals \in {GoodTotals, PoorTotals}, num_games \in TypedGames,
       profile \in {Scorer}, price \in Prices, timeframe \in ValidTimeframes :
        /\ pc = "idle"
        /\ Enter(Args(totals, num_games, profile, price, <<timeframe, FALSE>>, None),
                 "custom")

\* The call paths of the menu and testing layer.
MenuPaths == {"player", "test", "auto", "custom"}

\* Step 1: projected stats.
Project ==
    /\ pc = "project"
    /\ LET r == calculate_projected_stats(args.season_avg, args.recent_avg,
                    args.timeframe, args.use_2023_stats, args.player_archetype)
       IN IF r.raised # ""
          THEN Raise(r.raised) /\ UNCHANGED locals
          ELSE /\ locals' = [locals EXCEPT !.projected_stats = r.value]
               /\ pc' = "dispersion"
               /\ UNCHANGED raised
    /\ UNCHANGED <<caller, args, ret, probe, test_results>>

\* Step 2: standard deviations.
Dispersion ==
    /\ pc = "dispersion"
    /\ locals' = [locals EXCEPT
           !.std_devs = calculate_standard_deviations(locals.projected_stats,
                            args.timeframe, args.player_archetype),
           !.default_alphas = DefaultAlphasAtReturn(locals.projected_stats,
                                  args.timeframe, args.player_archetype)]
    /\ pc' = "actual_avg"
    /\ UNCHANGED <<caller, args, ret, raised, probe, test_results>>

\* Step 3: actual per-game averages.
ActualAvg ==
    /\ pc = "actual_avg"
    /\ LET r == calculate_actual_averages(args.actual_totals, args.num_games)
       IN IF r.raised # ""
          THEN Raise(r.raised) /\ UNCHANGED locals
          ELSE /\ locals' = [locals EXCEPT !.actual_avg = r.value]
               /\ pc' = "score"
               /\ UNCHANGED raised
    /\ UNCHANGED <<caller, args, ret, probe, test_results>>

\* Steps 4 to 6: z-scores, PPS, DIS.
Score ==
    /\ pc = "score"
    /\ LET z == calculate_z_scores(locals.actual_avg, locals.projected_stats,
                                   locals.std_devs)
           p == calculate_pps(z, args.player_archetype)
           d == calculate_dis(p)
       IN IF d.raised # ""
          THEN /\ Raise(d.raised)
               /\ locals' = [locals EXCEPT !.z_scores = z, !.pps = p]
          ELSE /\ locals' = [locals EXCEPT !.z_scores = z, !.pps = p, !.dis = d.value]
               /\ pc' = "adjust"
               /\ UNCHANGED raised
    /\ UNCHANGED <<caller, args, ret, probe, test_results>>

\* The dict simulate_timeframe returns, from its arguments and locals.
PricingResult(a, l) ==
    [projected_stats |-> l.projected_stats, standard_deviations |-> l.std_devs,
     actual_averages |-> l.actual_avg, z_scores |-> l.z_scores, pps |-> l.pps,
     dis |-> l.dis, raw_delta |-> l.raw_delta, dampened_delta |-> l.dampened_delta,
     new_price |-> l.new_price, price_change_pct |-> l.price_change_pct,
     old_price |-> a.old_price, timeframe |-> a.timeframe, num_games |-> a.num_games]

\* Steps 7 to 9 and the return statement: raw delta, dampening, new price.
Adjust ==
    /\ pc = "adjust"
    /\ LET rd == calculate_raw_delta(locals.pps, locals.dis)
           dd == apply_dampening(rd, args.timeframe, args.player_archetype)
       IN IF dd.raised # ""
          THEN /\ Raise(dd.raised)
               /\ locals' = [locals EXCEPT !.raw_delta = rd]
               /\ UNCHANGED ret
          ELSE LET np == calculate_new_price(args.old_price, dd.value)
                   l  == [locals EXCEPT !.raw_delta = rd,
                                        !.dampened_delta = dd.value,
                                        !.new_price = np.new_price,
                                        !.price_change_pct = np.price_change_pct]
               IN /\ locals' = l
                  /\ ret' = PricingResult(args, l)
                  /\ pc' = "done"
                  /\ UNCHANGED raised
    /\ UNCHANGED <<caller, args, probe, test_results>>

\* The caller has the result: the frame is gone.
Return ==
    /\ pc = "done"
    /\ pc' = "idle"
    /\ caller' = ""
    /\ args' = Unset
    /\ locals' = NoLocals
    /\ ret' = Unset
    /\ UNCHANGED <<raised, probe, test_results>>

\* The exception has left the call: the frame is gone.
Unwind ==
    /\ pc = "fault"
    /\ pc' = "idle"
    /\ caller' = ""
    /\ args' = Unset
    /\ locals' = NoLocals
    /\ raised' = NotRaised
    /\ UNCHANGED <<ret, probe, test_results>>

Next ==
    \/ Call
    \/ PlayerCall
    \/ TestCall
    \/ AutoCall
    \/ CustomCall
    \/ Project
    \/ Dispersion
    \/ ActualAvg
    \/ Score
    \/ Adjust
    \/ Return
    \/ Unwind

Spec == Init /\ [][Next]_vars

\* The outcome of the invocation under way: what it returned, what it raised.
Outcome == [ret |-> ret, raised |-> raised]

\* name = value, and then the rest: With([name \in {value} |-> rest]) is the
\* rest after the assignment of value to the local variable name, the value
\* computed once.
With(f) == f[CHOOSE v \in DOMAIN f : TRUE]

\* TimeframeAlgorithm.simulate_timeframe as a function of its arguments: the
\* outcome of the nine steps in order.
simulate_timeframe(a) ==
    LET Fault(exc, stage) == [ret |-> Unset, raised |-> [exc |-> exc, stage |-> stage]]
    IN
    With([p \in {calculate_projected_stats(a.season_avg, a.recent_avg, a.timeframe,
                                   a.use_2023_stats, a.player_archetype)} |->
    IF p.raised # "" THEN Fault(p.raised, "project") ELSE
    With([sd \in {calculate_standard_deviations(p.value, a.timeframe, a.player_archetype)} |->
    With([aa \in {calculate_actual_averages(a.actual_totals, a.num_games)} |->
    IF aa.raised # "" THEN Fault(aa.raised, "actual_avg") ELSE
    With([z \in {calculate_z_scores(aa.value, p.value, sd)} |->
    With([pp \in {calculate_pps(z, a.player_archetype)} |->
    With([d \in {calculate_dis(pp)} |->
    IF d.raised # "" THEN Fault(d.raised, "score") ELSE
    With([rd \in {calculate_raw_delta(pp, d.value)} |->
    With([dd \in {apply_dampening(rd, a.timeframe, a.player_archetype)} |->
    IF dd.raised # "" THEN Fault(dd.raised, "adjust") ELSE
    With([np \in {calculate_new_price(a.old_price, dd.value)} |->
        [ret |-> [projected_stats |-> p.value, standard_deviations |-> sd,
                  actual_averages |-> aa.value, z_scores |-> z, pps |-> pp,
                  dis |-> d.value, raw_delta |-> rd, dampened_delta |-> dd.value,
                  new_price |-> np.new_price,
                  price_change_pct |-> np.price_change_pct,
                  old_price |-> a.old_price, timeframe |-> a.timeframe,
                  num_games |-> a.num_games],
         raised |-> NotRaised]])])])])])])])])])

-----------------------------------------------------------------------------
(* TimeframeTestAlgorithm: the pipeline without archetypes *)

\* TimeframeTestAlgorithm.calculate_projected_stats
TimeframeTestAlgorithm_calculate_projected_stats(season_avg, recent_avg, timeframe, use_2023_stats) ==
    IF timeframe = "weekly" THEN [raised |-> "", value |-> Blend(season_avg, recent_avg)]
    ELSE IF timeframe = "monthly" THEN [raised |-> "", value |-> Blend(season_avg, recent_avg)]
    ELSE IF timeframe = "season"
    THEN [raised |-> "", value |-> IF use_2023_stats THEN season_avg ELSE season_avg]
    ELSE [raised |-> "ValueError"]

\* TimeframeTestAlgorithm.calculate_standard_deviations
TimeframeTestAlgorithm_calculate_standard_deviations(projected_stats, timeframe) ==
    LET alphas == IF timeframe = "weekly"
                  THEN AsFloats(Milli(1418, 945, 945, 958, 958, 958, 70))
                  ELSE IF timeframe = "monthly"
                  THEN AsFloats(Milli(809, 539, 539, 547, 547, 547, 70))
                  ELSE AsFloats(Milli(794, 529, 529, 537, 537, 537, 70))
    IN [k \in Keys |->
          IF k = "ts%" THEN alphas[k]
          ELSE FMul(alphas[k],
                    FSqrt(FMax(projected_stats[CHOOSE i \in 1..6 : StatNames[i] = k],
                               Dec(1, 1))))]

\* TimeframeTestAlgorithm.calculate_actual_averages
TimeframeTestAlgorithm_calculate_actual_averages(actual_totals, num_games) ==
    IF num_games = 0
    THEN [raised |-> "ZeroDivisionError"]
    ELSE [raised |-> "",
          value  |-> [i \in 1..7 |-> FDiv(actual_totals[i], FInt(num_games))]]

\* TimeframeTestAlgorithm.calculate_z_scores
TimeframeTestAlgorithm_calculate_z_scores(actual_avg, projected_stats, std_devs) ==
    [k \in Keys |->
        LET i == CHOOSE j \in 1..7 : StatNames[j] = k
        IN IF k = "to"
           THEN FDiv(FSub(projected_stats[i], actual_avg[i]), std_devs[k])
           ELSE FDiv(FSub(actual_avg[i], projected_stats[i]), std_devs[k])]

\* TimeframeTestAlgorithm.calculate_pps: the default weights for every player.
TimeframeTestAlgorithm_calculate_pps(z_scores) ==
    WeightedSum(AsFloats(Milli(450, 150, 150, 50, 100, 50, 50)), z_scores)

\* TimeframeTestAlgorithm.calculate_dis
TimeframeTestAlgorithm_calculate_dis(pps) ==
    LET buy_adj  == FMul(FInt(15), pps)
        sell_adj == FMul(FInt(0 - 15), pps)
        buys     == FAdd(FAdd(FInt(50), buy_adj), FInt(2))
        sells    == FSub(FAdd(FInt(50), sell_adj), FInt(2))
    IN IF FAdd(buys, sells) = Zero
       THEN [raised |-> "ZeroDivisionError"]
       ELSE [raised |-> "", value |-> FDiv(FSub(buys, sells), FAdd(buys, sells))]

\* TimeframeTestAlgorithm.calculate_raw_delta
TimeframeTestAlgorithm_calculate_raw_delta(pps, dis) ==
    FAdd(FMul(Dec(8, 1), pps), FMul(Dec(2, 1), dis))

\* The dampening of the variant with the coefficient 0.5 for weekly and
\* monthly gains.
TimeframeTestAlgorithm_apply_dampening_half(raw_delta, timeframe) ==
    IF OutOfRange(Square(raw_delta))
    THEN [raised |-> "OverflowError"]
    ELSE [raised |-> "",
          value  |-> IF FGe(raw_delta, Zero)
                     THEN IF timeframe = "weekly" THEN GainBranch(raw_delta, 50, 10)
                          ELSE IF timeframe = "monthly" THEN GainBranch(raw_delta, 50, 10)
                          ELSE GainBranch(raw_delta, 10, 50)
                     ELSE LossBranch(raw_delta)]

\* TimeframeTestAlgorithm.apply_dampening: the coefficient is 0.1 for every
\* timeframe, the cap 10 for weekly and monthly and 50 otherwise.
TimeframeTestAlgorithm_apply_dampening(raw_delta, timeframe) ==
    IF OutOfRange(Square(raw_delta))
    THEN [raised |-> "OverflowError"]
    ELSE [raised |-> "",
          value  |-> IF FGe(raw_delta, Zero)
                     THEN IF timeframe = "weekly" THEN GainBranch(raw_delta, 10, 10)
                          ELSE IF timeframe = "monthly" THEN GainBranch(raw_delta, 10, 10)
                          ELSE GainBranch(raw_delta, 10, 50)
                     ELSE LossBranch(raw_delta)]

\* TimeframeTestAlgorithm.calculate_new_price
TimeframeTestAlgorithm_calculate_new_price(old_price, dampened_delta) ==
    [new_price        |-> FMul(old_price, FAdd(One, dampened_delta)),
     price_change_pct |-> FMul(dampened_delta, FInt(100))]

\* TimeframeTestAlgorithm.simulate_timeframe as a function of its arguments.
TimeframeTestAlgorithm_simulate_timeframe(a) ==
    LET Fault(exc, stage) == [ret |-> Unset, raised |-> [exc |-> exc, stage |-> stage]]
    IN
    With([p \in {TimeframeTestAlgorithm_calculate_projected_stats(
                 a.season_avg, a.recent_avg, a.timeframe, a.use_2023_stats)} |->
    IF p.raised # "" THEN Fault(p.raised, "project") ELSE
    With([sd \in {TimeframeTestAlgorithm_calculate_standard_deviations(p.value, a.timeframe)} |->
    With([aa \in {TimeframeTestAlgorithm_calculate_actual_averages(a.actual_totals, a.num_games)} |->
    IF aa.raised # "" THEN Fault(aa.raised, "actual_avg") ELSE
    With([z \in {TimeframeTestAlgorithm_calculate_z_scores(aa.value, p.value, sd)} |->
    With([pp \in {TimeframeTestAlgorithm_calculate_pps(z)} |->
    With([d \in {TimeframeTestAlgorithm_calculate_dis(pp)} |->
    IF d.raised # "" THEN Fault(d.raised, "score") ELSE
    With([rd \in {TimeframeTestAlgorithm_calculate_raw_delta(pp, d.value)} |->
    With([dd \in {TimeframeTestAlgorithm_apply_dampening(rd, a.timeframe)} |->
    IF dd.raised # "" THEN Fault(dd.raised, "adjust") ELSE
    With([np \in {TimeframeTestAlgorithm_calculate_new_price(a.old_price, dd.value)} |->
       [ret |-> [projected_stats |-> p.value, standard_deviations |-> sd,
                 actual_averages |-> aa.value, z_scores |-> z, pps |-> pp,
                 dis |-> d.value, raw_delta |-> rd, dampened_delta |-> dd.value,
                 new_price |-> np.new_price,
                 price_change_pct |-> np.price_change_pct,
                 old_price |-> a.old_price, timeframe |-> a.timeframe,
                 num_games |-> a.num_games],
        raised |-> NotRaised]])])])])])])])])])

\* The same arguments given to both classes, no archetype to the first.
TestArgs ==
    {Args(totals, games, profile, price, tf, None) :
        totals \in Totals, games \in 0..MaxGames, profile \in Profiles,
        price \in Prices, tf \in TimeframeFlags}

InitTest ==
    /\ NoFrame
    /\ probe \in {[fn |-> "both", in |-> a, out |-> Unset] : a \in TestArgs}

\* TimeframeAlgorithm().simulate_timeframe(..., player_archetype=None) and
\* TimeframeTestAlgorithm().simulate_timeframe(...) run on the same arguments.
RunBoth ==
    /\ probe.fn = "both"
    /\ probe.out = Unset
    /\ probe' = [probe EXCEPT !.out =
           [unified |-> simulate_timeframe(probe.in),
            test    |-> TimeframeTestAlgorithm_simulate_timeframe(probe.in)]]
    /\ UNCHANGED <<pc, caller, args, locals, ret, raised, test_results>>

NextTest == RunBoth

SpecTest == InitTest /\ [][NextTest]_vars

BothRan == probe # Unset /\ probe.fn = "both" /\ probe.out # Unset

\* C23 as claimed: for weekly, monthly and season alike the variant without
\* archetypes returns the PricingResult that TimeframeAlgorithm returns with
\* player_archetype = None.
C23_TestVariantAgrees ==
    (BothRan /\ probe.in.timeframe \in ValidTimeframes) =>
        probe.out.test = probe.out.unified

\* The fields of a PricingResult that precede the dampening.
BeforeDampening ==
    {"projected_stats", "standard_deviations", "actual_averages", "z_scores",
     "pps", "dis", "raw_delta", "old_price", "timeframe", "num_games"}

\* C23 amended: the two agree on what is raised and, in a result, on every
\* field up to the raw delta; they agree on the whole result for season and
\* wherever raw_delta <= 0; for a weekly or monthly raw_delta > 0 the variant
\* dampens with the coefficient 0.1 (the weekly rule TimeframeAlgorithm has
\* for Bench Warmers), TimeframeAlgorithm with 0.5.
C23_TestVariantAgreesButGainCoefficient ==
    (BothRan /\ probe.in.timeframe \in ValidTimeframes) =>
        LET u == probe.out.unified
            t == probe.out.test
        IN /\ t.raised = u.raised
           /\ u.raised = NotRaised =>
                 /\ \A f \in BeforeDampening : t.ret[f] = u.ret[f]
                 /\ (probe.in.timeframe = "season" \/ FLe(u.ret.raw_delta, Zero))
                        => t.ret = u.ret
                 /\ (probe.in.timeframe # "season" /\ FGt(u.ret.raw_delta, Zero)) =>
                        /\ t.ret.dampened_delta =
                              apply_dampening(u.ret.raw_delta, "weekly", "Bench Warmers").value
                        /\ u.ret.dampened_delta =
                              GainBranch(u.ret.raw_delta, 50, 10)
                        /\ t.ret.new_price =
                              calculate_new_price(probe.in.old_price,
                                                  t.ret.dampened_delta).new_price

\* C23 witness: a weekly gain on which the two classes have returned
\* different dampened deltas and new prices.
C23_Witness ==
    /\ BothRan
    /\ probe.in.timeframe = "weekly"
    /\ probe.out.unified.raised = NotRaised
    /\ probe.out.test.raised = NotRaised
    /\ FGt(probe.out.unified.ret.raw_delta, Zero)
    /\ probe.out.test.ret.dampened_delta # probe.out.unified.ret.dampened_delta
    /\ probe.out.test.ret.new_price # probe.out.unified.ret.new_price

-----------------------------------------------------------------------------
(* WeeklyAlgorithm and MonthlyAlgorithm: the pipeline of one timeframe *)

\* WeeklyAlgorithm.calculate_projected_stats
WeeklyAlgorithm_calculate_projected_stats(season_avg, recent_avg, player_archetype) ==
    LET projected == Blend(season_avg, recent_avg)
    IN CASE player_archetype = "Superstars" -> Scale(projected, Dec(1035, 3))
         [] player_archetype = "Elite Playmakers" -> Scale(projected, Dec(1035, 3))
         [] player_archetype = "Versatile" -> Scale(projected, Dec(1045, 3))
         [] player_archetype = "One Dimensional" -> Scale(projected, Dec(10105, 4))
         [] player_archetype = "Role Players" -> Scale(projected, Dec(101, 2))
         [] player_archetype = "Turnover Prone" -> Scale(projected, Dec(98, 2))
         [] player_archetype = "Rebounding Machines" -> Scale(projected, Dec(985, 3))
         [] player_archetype = "High Volume Scorers" -> Scale(projected, Dec(995, 3))
         [] player_archetype = "Bench Warmers" -> Scale(projected, Dec(1003, 3))
         [] player_archetype = "Elite Shooters" -> Scale(projected, Dec(9975, 4))
         [] OTHER -> projected

\* WeeklyAlgorithm._get_weekly_alphas
WeeklyAlgorithm_get_weekly_alphas(player_archetype, projected_stats) ==
    LET default_alphas == AsFloats(Milli(1418, 945, 945, 958, 958, 958, 70))
    IN IF Falsy(player_archetype) THEN default_alphas
       ELSE CASE player_archetype = "Superstars" ->
                   AsFloats(Milli(1600, 1100, 1100, 958, 958, 958, 70))
              [] player_archetype = "Versatile" ->
                   AsFloats(Milli(1702, 1134, 1134, 1150, 1150, 1150, 84))
              [] player_archetype = "Elite Playmakers" ->
                   AsFloats(Milli(1418, 945, 1200, 958, 958, 958, 70))
              [] player_archetype = "High Volume Scorers" ->
                   AsFloats(Milli(1300, 945, 945, 958, 958, 958, 70))
              [] player_archetype = "Rebounding Machines" ->
                   AsFloats(Milli(1418, 850, 945, 958, 958, 958, 70))
              [] player_archetype = "Bench Warmers" ->
                   AsFloats(Milli(1021, 680, 680, 689, 689, 689, 50))
              [] player_archetype = "Turnover Prone" ->
                   AsFloats(Milli(1418, 945, 945, 1100, 958, 958, 70))
              [] player_archetype = "One Dimensional" ->
                   LET signature_stat == StatNames[SignatureIndex(projected_stats)]
                   IN [default_alphas EXCEPT
                         ![signature_stat] = FMul(default_alphas[signature_stat],
                                                  Dec(108, 2))]
              [] player_archetype = "Role Players" ->
                   AsFloats(Milli(1489, 992, 992, 1006, 1006, 1006, 74))
              [] OTHER -> default_alphas

\* WeeklyAlgorithm.calculate_standard_deviations, given the alphas it has looked up.
WeeklyAlgorithm_calculate_standard_deviations(projected_stats, alphas) ==
    [k \in Keys |->
        IF k = "ts%" THEN alphas[k]
        ELSE FMul(alphas[k],
                  FSqrt(FMax(projected_stats[CHOOSE i \in 1..6 : StatNames[i] = k],
                             Dec(1, 1))))]

\* WeeklyAlgorithm.calculate_actual_averages
WeeklyAlgorithm_calculate_actual_averages(actual_totals, num_games) ==
    IF num_games = 0
    THEN [raised |-> "ZeroDivisionError"]
    ELSE [raised |-> "",
          value  |-> [i \in 1..7 |-> FDiv(actual_totals[i], FInt(num_games))]]

\* WeeklyAlgorithm.calculate_z_scores
WeeklyAlgorithm_calculate_z_scores(actual_avg, projected_stats, std_devs) ==
    [k \in Keys |->
        LET i == CHOOSE j \in 1..7 : StatNames[j] = k
        IN IF k = "to"
           THEN FDiv(FSub(projected_stats[i], actual_avg[i]), std_devs[k])
           ELSE FDiv(FSub(actual_avg[i], projected_stats[i]), std_devs[k])]

\* WeeklyAlgorithm.calculate_pps
WeeklyAlgorithm_calculate_pps(z_scores, player_archetype) ==
    WeightedSum(AsFloats(WeeklyAlgorithm_get_archetype_weights(player_archetype)), z_scores)

\* WeeklyAlgorithm.calculate_dis
WeeklyAlgorithm_calculate_dis(pps) ==
    LET buy_adj  == FMul(FInt(15), pps)
        sell_adj == FMul(FInt(0 - 15), pps)
        buys     == FAdd(FAdd(FInt(50), buy_adj), FInt(2))
        sells    == FSub(FAdd(FInt(50), sell_adj), FInt(2))
    IN IF FAdd(buys, sells) = Zero
       THEN [raised |-> "ZeroDivisionError"]
       ELSE [raised |-> "", value |-> FDiv(FSub(buys, sells), FAdd(buys, sells))]

\* WeeklyAlgorithm.calculate_raw_delta
WeeklyAlgorithm_calculate_raw_delta(pps, dis) ==
    FAdd(FMul(Dec(8, 1), pps), FMul(Dec(2, 1), dis))

\* WeeklyAlgorithm.calculate_new_price
WeeklyAlgorithm_calculate_new_price(old_price, dampened_delta) ==
    [new_price        |-> FMul(old_price, FAdd(One, dampened_delta)),
     price_change_pct |-> FMul(dampened_delta, FInt(100))]

\* WeeklyAlgorithm.apply_dampening
WeeklyAlgorithm_apply_dampening(raw_delta, player_archetype) ==
    IF OutOfRange(Square(raw_delta))
    THEN [raised |-> "OverflowError"]
    ELSE [raised |-> "",
          value  |-> IF FGe(raw_delta, Zero)
                     THEN CASE player_archetype = "Superstars" -> GainBranch(raw_delta, 50, 10)
                            [] player_archetype = "One Dimensional" -> GainBranch(raw_delta, 50, 10)
                            [] player_archetype = "Bench Warmers" -> GainBranch(raw_delta, 10, 10)
                            [] player_archetype = "Versatile" -> GainBranch(raw_delta, 80, 10)
                            [] player_archetype = "Rebounding Machines" -> GainBranch(raw_delta, 80, 10)
                            [] OTHER -> GainBranch(raw_delta, 50, 10)
                     ELSE LossBranch(raw_delta)]

\* WeeklyAlgorithm.simulate_weekly as a function of its arguments.
WeeklyAlgorithm_simulate_weekly(a) ==
    LET Fault(exc, stage) == [ret |-> Unset, raised |-> [exc |-> exc, stage |-> stage]]
    IN
    With([p \in {WeeklyAlgorithm_calculate_projected_stats(a.season_avg, a.recent_avg,
                                            a.player_archetype)} |->
    With([sd \in {WeeklyAlgorithm_calculate_standard_deviations(p, WeeklyAlgorithm_get_weekly_alphas(a.player_archetype, p))} |->
    With([aa \in {WeeklyAlgorithm_calculate_actual_averages(a.actual_totals, a.num_games)} |->
    IF aa.raised # "" THEN Fault(aa.raised, "actual_avg") ELSE
    With([z \in {WeeklyAlgorithm_calculate_z_scores(aa.value, p, sd)} |->
    With([pp \in {WeeklyAlgorithm_calculate_pps(z, a.player_archetype)} |->
    With([d \in {WeeklyAlgorithm_calculate_dis(pp)} |->
    IF d.raised # "" THEN Fault(d.raised, "score") ELSE
    With([rd \in {WeeklyAlgorithm_calculate_raw_delta(pp, d.value)} |->
    With([dd \in {WeeklyAlgorithm_apply_dampening(rd, a.player_archetype)} |->
    IF dd.raised # "" THEN Fault(dd.raised, "adjust") ELSE
    With([np \in {WeeklyAlgorithm_calculate_new_price(a.old_price, dd.value)} |->
       [ret |-> [projected_stats |-> p, standard_deviations |-> sd,
                 actual_averages |-> aa.value, z_scores |-> z, pps |-> pp,
                 dis |-> d.value, raw_delta |-> rd, dampened_delta |-> dd.value,
                 new_price |-> np.new_price,
                 price_change_pct |-> np.price_change_pct,
                 old_price |-> a.old_price, timeframe |-> "weekly",
                 num_games |-> a.num_games],
        raised |-> NotRaised]])])])])])])])])])

\* MonthlyAlgorithm.calculate_projected_stats
MonthlyAlgorithm_calculate_projected_stats(season_avg, recent_avg, player_archetype) ==
    LET projected == Blend(season_avg, recent_avg)
    IN CASE player_archetype = "Superstars" -> Scale(projected, Dec(10212, 4))
         [] player_archetype = "Elite Shooters" -> Scale(projected, Dec(1002, 3))
         [] player_archetype = "Elite Defenders" -> Scale(projected, Dec(99685, 5))
         [] player_archetype = "Elite Playmakers" -> Scale(projected, Dec(102, 2))
         [] player_archetype = "Rebounding Machines" -> Scale(projected, Dec(999, 3))
         [] player_archetype = "Turnover Prone" -> Scale(projected, Dec(9885, 4))
         [] player_archetype = "One Dimensional" -> Scale(projected, Dec(1008, 3))
         [] player_archetype = "Versatile" -> Scale(projected, Dec(10325, 4))
         [] player_archetype = "Role Players" -> Scale(projected, Dec(10035, 4))
         [] player_archetype = "High Volume Scorers" -> Scale(projected, Dec(1001, 3))
         [] player_archetype = "High Efficiency" -> Scale(projected, Dec(10008, 4))
         [] OTHER -> projected

\* MonthlyAlgorithm._get_monthly_alphas
MonthlyAlgorithm_get_monthly_alphas(player_archetype) ==
    LET default_alphas == AsFloats(Milli(809, 539, 539, 547, 547, 547, 70))
    IN IF Falsy(player_archetype) THEN default_alphas
       ELSE CASE player_archetype = "Superstars" ->
                   AsFloats(Milli(1011, 674, 674, 684, 684, 684, 88))
              [] player_archetype = "Elite Shooters" ->
                   AsFloats(Milli(833, 555, 555, 563, 563, 563, 72))
              [] player_archetype = "Elite Playmakers" ->
                   AsFloats(Milli(971, 647, 647, 656, 656, 656, 84))
              [] player_archetype = "Turnover Prone" ->
                   AsFloats(Milli(769, 512, 512, 520, 520, 520, 67))
              [] player_archetype = "One Dimensional" ->
                   AsFloats(Milli(890, 593, 593, 602, 602, 602, 77))
              [] player_archetype = "Versatile" ->
                   AsFloats(Milli(1011, 674, 674, 684, 684, 684, 88))
              [] player_archetype = "Role Players" ->
                   AsFloats(Milli(849, 566, 566, 574, 574, 574, 74))
              [] OTHER -> default_alphas

\* MonthlyAlgorithm.calculate_standard_deviations, given the alphas it has looked up.
MonthlyAlgorithm_calculate_standard_deviations(projected_stats, alphas) ==
    [k \in Keys |->
        IF k = "ts%" THEN alphas[k]
        ELSE FMul(alphas[k],
                  FSqrt(FMax(projected_stats[CHOOSE i \in 1..6 : StatNames[i] = k],
                             Dec(1, 1))))]

\* MonthlyAlgorithm.calculate_actual_averages
MonthlyAlgorithm_calculate_actual_averages(actual_totals, num_games) ==
    IF num_games = 0
    THEN [raised |-> "ZeroDivisionError"]
    ELSE [raised |-> "",
          value  |-> [i \in 1..7 |-> FDiv(actual_totals[i], FInt(num_games))]]

\* MonthlyAlgorithm.calculate_z_scores
MonthlyAlgorithm_calculate_z_scores(actual_avg, projected_stats, std_devs) ==
    [k \in Keys |->
        LET i == CHOOSE j \in 1..7 : StatNames[j] = k
        IN IF k = "to"
           THEN FDiv(FSub(projected_stats[i], actual_avg[i]), std_devs[k])
           ELSE FDiv(FSub(actual_avg[i], projected_stats[i]), std_devs[k])]

\* MonthlyAlgorithm.calculate_pps
MonthlyAlgorithm_calculate_pps(z_scores, player_archetype) ==
    WeightedSum(AsFloats(MonthlyAlgorithm_get_archetype_weights(player_archetype)), z_scores)

\* MonthlyAlgorithm.calculate_dis
MonthlyAlgorithm_calculate_dis(pps) ==
    LET buy_adj  == FMul(FInt(15), pps)
        sell_adj == FMul(FInt(0 - 15), pps)
        buys     == FAdd(FAdd(FInt(50), buy_adj), FInt(2))
        sells    == FSub(FAdd(FInt(50), sell_adj), FInt(2))
    IN IF FAdd(buys, sells) = Zero
       THEN [raised |-> "ZeroDivisionError"]
       ELSE [raised |-> "", value |-> FDiv(FSub(buys, sells), FAdd(buys, sells))]

\* MonthlyAlgorithm.calculate_raw_delta
MonthlyAlgorithm_calculate_raw_delta(pps, dis) ==
    FAdd(FMul(Dec(8, 1), pps), FMul(Dec(2, 1), dis))

\* MonthlyAlgorithm.calculate_new_price
MonthlyAlgorithm_calculate_new_price(old_price, dampened_delta) ==
    [new_price        |-> FMul(old_price, FAdd(One, dampened_delta)),
     price_change_pct |-> FMul(dampened_delta, FInt(100))]

\* The monthly dampening with the weekly coefficients of Bench Warmers and
\* Versatile.
MonthlyAlgorithm_apply_dampening_as_weekly(raw_delta, player_archetype) ==
    WeeklyAlgorithm_apply_dampening(raw_delta, player_archetype)

\* MonthlyAlgorithm.apply_dampening
MonthlyAlgorithm_apply_dampening(raw_delta, player_archetype) ==
    IF OutOfRange(Square(raw_delta))
    THEN [raised |-> "OverflowError"]
    ELSE [raised |-> "",
          value  |-> IF FGe(raw_delta, Zero)
                     THEN CASE player_archetype = "Superstars" -> GainBranch(raw_delta, 50, 10)
                            [] player_archetype = "One Dimensional" -> GainBranch(raw_delta, 50, 10)
                            [] player_archetype = "Bench Warmers" -> GainBranch(raw_delta, 5, 10)
                            [] player_archetype = "Versatile" -> GainBranch(raw_delta, 10, 10)
                            [] player_archetype = "Rebounding Machines" -> GainBranch(raw_delta, 80, 10)
                            [] OTHER -> GainBranch(raw_delta, 50, 10)
                     ELSE LossBranch(raw_delta)]

\* MonthlyAlgorithm.simulate_monthly as a function of its arguments.
MonthlyAlgorithm_simulate_monthly(a) ==
    LET Fault(exc, stage) == [ret |-> Unset, raised |-> [exc |-> exc, stage |-> stage]]
    IN
    With([p \in {MonthlyAlgorithm_calculate_projected_stats(a.season_avg, a.recent_avg,
                                            a.player_archetype)} |->
    With([sd \in {MonthlyAlgorithm_calculate_standard_deviations(p, MonthlyAlgorithm_get_monthly_alphas(a.player_archetype))} |->
    With([aa \in {MonthlyAlgorithm_calculate_actual_averages(a.actual_totals, a.num_games)} |->
    IF aa.raised # "" THEN Fault(aa.raised, "actual_avg") ELSE
    With([z \in {MonthlyAlgorithm_calculate_z_scores(aa.value, p, sd)} |->
    With([pp \in {MonthlyAlgorithm_calculate_pps(z, a.player_archetype)} |->
    With([d \in {MonthlyAlgorithm_calculate_dis(pp)} |->
    IF d.raised # "" THEN Fault(d.raised, "score") ELSE
    With([rd \in {MonthlyAlgorithm_calculate_raw_delta(pp, d.value)} |->
    With([dd \in {MonthlyAlgorithm_apply_dampening(rd, a.player_archetype)} |->
    IF dd.raised # "" THEN Fault(dd.raised, "adjust") ELSE
    With([np \in {MonthlyAlgorithm_calculate_new_price(a.old_price, dd.value)} |->
       [ret |-> [projected_stats |-> p, standard_deviations |-> sd,
                 actual_averages |-> aa.value, z_scores |-> z, pps |-> pp,
                 dis |-> d.value, raw_delta |-> rd, dampened_delta |-> dd.value,
                 new_price |-> np.new_price,
                 price_change_pct |-> np.price_change_pct,
                 old_price |-> a.old_price, timeframe |-> "monthly",
                 num_games |-> a.num_games],
        raised |-> NotRaised]])])])])])])])])])

\* The arguments given to the unified class and to the dedicated one of the
\* timeframe.
DedicatedArgs ==
    {Args(totals, games, profile, Dec(350, 1), <<tf, FALSE>>, arch) :
        totals \in {GoodTotals, PoorTotals, HugeTotals}, games \in 0..MaxGames,
        profile \in Profiles, tf \in {"weekly", "monthly"},
        arch \in ArchetypeInputs}

InitDedicated ==
    /\ NoFrame
    /\ probe \in {[fn |-> "dedicated", in |-> a, out |-> Unset] : a \in DedicatedArgs}

\* TimeframeAlgorithm().simulate_timeframe(..., 'weekly', False, archetype)
\* beside WeeklyAlgorithm().simulate_weekly(..., archetype), and likewise
\* for monthly.
RunDedicated ==
    /\ probe.fn = "dedicated"
    /\ probe.out = Unset
    /\ probe' = [probe EXCEPT !.out =
           [unified   |-> simulate_timeframe(probe.in),
            dedicated |-> IF probe.in.timeframe = "weekly"
                          THEN WeeklyAlgorithm_simulate_weekly(probe.in)
                          ELSE MonthlyAlgorithm_simulate_monthly(probe.in)]]
    /\ UNCHANGED <<pc, caller, args, locals, ret, raised, test_results>>

NextDedicated == RunDedicated

SpecDedicated == InitDedicated /\ [][NextDedicated]_vars

DedicatedRan == probe # Unset /\ probe.fn = "dedicated" /\ probe.out # Unset

\* C24: for every archetype tag the unified class with timeframe 'weekly'
\* returns what WeeklyAlgorithm.simulate_weekly returns, and with 'monthly'
\* what MonthlyAlgorithm.simulate_monthly returns, an exception raised
\* included.
C24_UnifiedAgreesWithDedicated ==
    DedicatedRan => probe.out.dedicated = probe.out.unified

\* C24 witness: a monthly gain of a Bench Warmers player has been priced by
\* both classes.
C24_Witness ==
    /\ DedicatedRan
    /\ probe.in.timeframe = "monthly"
    /\ probe.in.player_archetype = "Bench Warmers"
    /\ probe.out.dedicated.raised = NotRaised
    /\ probe.out.unified.raised = NotRaised
    /\ FGt(probe.out.dedicated.ret.raw_delta, Zero)

-----------------------------------------------------------------------------
(* simulate_timeframe on a performance that meets its projection *)

\* Arguments whose actual per-game averages are the projected stats: the
\* totals are num_games times the projection of the profile.
OnProjectionArgs ==
    {Args([i \in 1..7 |->
              FMul(FInt(games),
                   Projected(profile.season_avg, profile.recent_avg, tf[1], tf[2],
                             arch)[i])],
          games, profile, price, tf, arch) :
        games \in 1..(MaxGames + 1), profile \in Profiles, price \in Prices,
        tf \in {t \in TimeframeFlags : t[1] \in ValidTimeframes},
        arch \in ArchetypeInputs}

InitOnProjection ==
    /\ NoFrame
    /\ probe \in {[fn |-> "simulate_timeframe", in |-> a, out |-> Unset] :
                     a \in OnProjectionArgs}

\* simulate_timeframe runs on the arguments.
Price ==
    /\ probe.fn = "simulate_timeframe"
    /\ probe.out = Unset
    /\ probe' = [probe EXCEPT !.out = simulate_timeframe(probe.in)]
    /\ UNCHANGED <<pc, caller, args, locals, ret, raised, test_results>>

NextOnProjection == Price

SpecOnProjection == InitOnProjection /\ [][NextOnProjection]_vars

Priced == probe # Unset /\ probe.fn = "simulate_timeframe" /\ probe.out # Unset

-----------------------------------------------------------------------------
(* simulate_timeframe for the season, archetype by archetype *)

SeasonArgs ==
    {Args(totals, games, profile, Dec(350, 1), <<"season", flag>>, arch) :
        totals \in Totals, games \in 0..MaxGames, profile \in Profiles,
        flag \in BOOLEAN, arch \in ArchetypeInputs}

InitSeason ==
    /\ NoFrame
    /\ probe \in {[fn |-> "simulate_timeframe", in |-> a, out |-> Unset] :
                     a \in SeasonArgs}

NextSeason == Price

SpecSeason == InitSeason /\ [][NextSeason]_vars

\* C29: for season the archetype acts through the weights of the composite
\* score only: projected stats, dispersion, actual averages and z-scores are
\* those of the invocation without archetype, the composite score is the
\* weighted sum of these z-scores under the archetype's weights, and the
\* dampening is the season rule (coefficient 0.1, cap 50) whatever the
\* archetype.
C29_SeasonArchetypeOnlyInWeights ==
    (Priced /\ probe.in.timeframe = "season") =>
        LET plain == simulate_timeframe([probe.in EXCEPT !.player_archetype = None])
            out   == probe.out
        IN /\ out.raised.stage \in {"project", "actual_avg"} => plain.raised = out.raised
           /\ (out.raised = NotRaised /\ plain.raised = NotRaised) =>
                 /\ out.ret.projected_stats = plain.ret.projected_stats
                 /\ out.ret.standard_deviations = plain.ret.standard_deviations
                 /\ out.ret.actual_averages = plain.ret.actual_averages
                 /\ out.ret.z_scores = plain.ret.z_scores
                 /\ out.ret.pps =
                        WeightedSum(AsFloats(Weights(probe.in.player_archetype)),
                                    plain.ret.z_scores)
                 /\ out.ret.dampened_delta =
                        IF FGe(out.ret.raw_delta, Zero)
                        THEN GainBranch(out.ret.raw_delta, 10, 50)
                        ELSE LossBranch(out.ret.raw_delta)

\* C29 witness: a season result of a Superstars player whose composite
\* score, and with it the new price, is not that of the same performance
\* without archetype.
C29_Witness ==
    /\ Priced
    /\ probe.in.timeframe = "season"
    /\ probe.in.player_archetype = "Superstars"
    /\ probe.out.raised = NotRaised
    /\ LET plain == simulate_timeframe([probe.in EXCEPT !.player_archetype = None])
       IN /\ plain.raised = NotRaised
          /\ probe.out.ret.standard_deviations = plain.ret.standard_deviations
          /\ probe.out.ret.pps # plain.ret.pps
          /\ probe.out.ret.new_price # plain.ret.new_price

-----------------------------------------------------------------------------
(* The profitability ledger of the testing mode, SportsMarketSimulator *)

\* The ledger holds at most MaxTrades trades in all.
MaxTrades == 3
\* The largest number of simulations typed for an automated run.
MaxSimulations == 1

LedgerKeys == {"intragame", "weekly", "monthly", "season"}

\* self.test_results as run_profitability_testing and reset_test_results
\* set it.
NoTrades == [k \in LedgerKeys |-> [trades |-> <<>>, total_pnl |-> Zero, win_rate |-> 0]]

\* SportsMarket.list_players(): the names, in the order of the dict.
list_players == <<"Scorer", "Rebounder">>

\* SportsMarket.get_player_data(player_name)
get_player_data(player_name) ==
    IF player_name = "Scorer"
    THEN [games |-> MinStoredGames, season_avg_2024 |-> Scorer.recent_avg,
          season_avg_2023 |-> Scorer.season_avg]
    ELSE [games |-> MinStoredGames, season_avg_2024 |-> Rebounder.recent_avg,
          season_avg_2023 |-> Rebounder.season_avg]

\* The texts typed at "Select player (number): " and at the number of
\* simulations, and what int() makes of them.
TypedIntegers == {"0", "1", "2", "3", "x"}
ParseInt(text) ==
    CASE text = "0" -> [raised |-> "", value |-> 0]
      [] text = "1" -> [raised |-> "", value |-> 1]
      [] text = "2" -> [raised |-> "", value |-> 2]
      [] text = "3" -> [raised |-> "", value |-> 3]
      [] OTHER -> [raised |-> "ValueError"]

\* The texts typed at "Enter investment amount ($): ", and what float()
\* makes of them.
TypedAmounts == {"35.0", "x"}
ParseFloat(text) ==
    CASE text = "35.0" -> [raised |-> "", value |-> Dec(350, 1)]
      [] text = "0.5" -> [raised |-> "", value |-> Dec(5, 1)]
      [] OTHER -> [raised |-> "ValueError"]

\* players[player_idx] with player_idx = int(input(...)) - 1: a negative
\* index counts from the end of the list.
SelectPlayer(text) ==
    LET n   == ParseInt(text)
        len == Len(list_players)
    IN IF n.raised # "" THEN [raised |-> n.raised]
       ELSE LET player_idx == n.value - 1
            IN IF player_idx >= 0 /\ player_idx < len
               THEN [raised |-> "", value |-> list_players[player_idx + 1]]
               ELSE IF player_idx < 0 /\ 0 - player_idx <= len
               THEN [raised |-> "", value |-> list_players[len + player_idx + 1]]
               ELSE [raised |-> "IndexError"]

\* The line every sampled game of the ledger runs has.
LedgerLine == Vec(250, 60, 60, 10, 20, 30, 600)

\* timeframe_algo.simulate_timeframe on the arguments run_test_timeframe and
\* run_automated_simulations build for a player, by timeframe, player and
\* investment.
TimeframeResults ==
    [timeframe \in ValidTimeframes |->
        [player_name \in {list_players[i] : i \in 1..Len(list_players)} |->
            [investment \in Prices |->
                simulate_timeframe(StoredArgs(get_player_data(player_name),
                                              LedgerLine, investment, timeframe))]]]

\* What the event-level pipeline makes of a random game: the score and the
\* dampened delta, a gain and a loss.
IntragameOutcomes ==
    {[pps |-> Dec(5, 1), dampened_delta |-> Dec(5, 2)],
     [pps |-> Dec(0 - 8, 1), dampened_delta |-> Dec(0 - 3, 1)]}

\* intragame_algo.simulate_intragame(actual_stats, season_avg, last_5_avg,
\* investment): the fields of the audit trail the ledger reads, for a random
\* game with the outcome outcome.
simulate_intragame(investment, outcome) ==
    [old_price |-> investment,
     new_price |-> FMul(investment, FAdd(One, outcome.dampened_delta)),
     price_change_pct |-> FMul(outcome.dampened_delta, FInt(100)),
     pps |-> outcome.pps]

\* The trade dict the four recording sites build ("P&L with 1% fee (bank
\* perspective)"); the intragame sites leave the key 'timeframe' out, here
\* it holds the ledger key.
Trade(key, player_name, result, investment, timestamp) ==
    LET price_change_pct == FDiv(result.price_change_pct, FInt(100))
        user_pnl         == FMul(investment, price_change_pct)
        fee              == FMul(investment, Dec(1, 2))
        bank_pnl         == FSub(fee, user_pnl)
        new_value        == FSub(FAdd(investment, user_pnl), fee)
    IN [player |-> player_name, old_price |-> result.old_price,
        new_price |-> result.new_price,
        price_change_pct |-> result.price_change_pct,
        investment |-> investment, user_pnl |-> user_pnl, fee |-> fee,
        bank_pnl |-> bank_pnl, new_value |-> new_value, pps |-> result.pps,
        timeframe |-> key, timestamp |-> timestamp]

\* The recording without the update of total_pnl.
Record_trade_only(results, key, player_name, result, investment) ==
    LET trade == Trade(key, player_name, result, investment,
                       Len(results[key].trades) + 1)
    IN [results EXCEPT ![key].trades = Append(@, trade)]

\* trade = {..., 'timestamp': len(trades) + 1}; trades.append(trade);
\* total_pnl += bank_pnl
Record(results, key, player_name, result, investment) ==
    LET trade == Trade(key, player_name, result, investment,
                       Len(results[key].trades) + 1)
    IN [results EXCEPT ![key].trades = Append(@, trade),
                       ![key].total_pnl = FAdd(@, trade.bank_pnl)]

\* The number of trades the ledger holds.
Recorded(results) ==
    Len(results["intragame"].trades) + Len(results["weekly"].trades)
      + Len(results["monthly"].trades) + Len(results["season"].trades)

\* Testing mode: the ledger is set up, nothing has run.
InitLedger ==
    /\ pc = "idle"
    /\ caller = ""
    /\ args = Unset
    /\ locals = NoLocals
    /\ ret = Unset
    /\ raised = NotRaised
    /\ probe = Unset
    /\ test_results = NoTrades

\* What the last option of the testing menu did: its handler and outcome.
Did(handler, outcome) ==
    /\ probe' = [fn |-> handler, in |-> Unset, out |-> outcome]
    /\ UNCHANGED <<pc, caller, args, locals, ret, raised>>

\* run_test_intragame: the player is selected, a random game drawn, the
\* investment read, the trade recorded; ValueError and IndexError are caught
\* and printed.
run_test_intragame ==
    \E selection \in TypedIntegers, amount \in TypedAmounts,
       outcome \in IntragameOutcomes :
        LET player     == SelectPlayer(selection)
            investment == ParseFloat(amount)
        IN IF player.raised # ""
           THEN Did("run_test_intragame", player.raised) /\ UNCHANGED test_results
           ELSE IF investment.raised # ""
           THEN Did("run_test_intragame", investment.raised) /\ UNCHANGED test_results
           ELSE /\ Recorded(test_results) < MaxTrades
                /\ test_results' =
                       Record(test_results, "intragame", player.value,
                              simulate_intragame(investment.value, outcome),
                              investment.value)
                /\ Did("run_test_intragame", "recorded")

\* run_test_timeframe(timeframe): likewise, on the sampled games of the
\* timeframe; an exception of simulate_timeframe is not caught if it is
\* neither ValueError nor IndexError, and nothing is recorded either way.
run_test_timeframe ==
    \E timeframe \in ValidTimeframes, selection \in TypedIntegers,
       amount \in TypedAmounts :
        LET player     == SelectPlayer(selection)
            investment == ParseFloat(amount)
        IN IF player.raised # ""
           THEN Did("run_test_timeframe", player.raised) /\ UNCHANGED test_results
           ELSE IF investment.raised # ""
           THEN Did("run_test_timeframe", investment.raised) /\ UNCHANGED test_results
           ELSE \E result \in {TimeframeResults[timeframe][player.value][investment.value]} :
                   IF result.raised # NotRaised
                   THEN Did("run_test_timeframe", result.raised.exc)
                          /\ UNCHANGED test_results
                   ELSE /\ Recorded(test_results) < MaxTrades
                        /\ test_results' =
                               Record(test_results, timeframe, player.value,
                                      result.ret, investment.value)
                        /\ Did("run_test_timeframe", "recorded")

\* The algorithms an answer to "Select option (1-5)" stands for.
Algorithms(algorithm_choice) ==
    CASE algorithm_choice = "1" -> <<"intragame">>
      [] algorithm_choice = "2" -> <<"weekly">>
      [] algorithm_choice = "3" -> <<"monthly">>
      [] algorithm_choice = "4" -> <<"season">>
      [] OTHER -> <<"intragame", "weekly", "monthly", "season">>

RECURSIVE run_automated_simulations(_, _, _, _, _)
\* run_automated_simulations(num_simulations, investment_amount, algorithms)
\* from the ledger results on: for each algorithm, num_simulations trades of
\* a player chosen at random; draws[j] is the j-th random choice, of a
\* player and of the game's outcome. No exception is caught here.
run_automated_simulations(results, num_simulations, investment_amount, algorithms, draws) ==
    IF algorithms = <<>> \/ num_simulations <= 0 THEN results
    ELSE LET algorithm == Head(algorithms)
             RECURSIVE Simulations(_, _)
             Simulations(r, i) ==
                 IF i > num_simulations THEN r
                 ELSE LET draw   == draws[(Len(draws) - Len(algorithms) * num_simulations) + i]
                          result == IF algorithm = "intragame"
                                    THEN simulate_intragame(investment_amount,
                                                            draw.outcome)
                                    ELSE TimeframeResults[algorithm][draw.player][investment_amount].ret
                      IN Simulations(Record(r, algorithm, draw.player, result,
                                            investment_amount), i + 1)
         IN run_automated_simulations(Simulations(results, 1), num_simulations,
                                      investment_amount, Tail(algorithms), draws)

\* The random choices of one simulation.
Draws ==
    [player : {list_players[i] : i \in 1..Len(list_players)},
     outcome : IntragameOutcomes]

\* run_automated_testing: the number of simulations, the investment and the
\* algorithms are read (a ValueError of int() or float() is caught and
\* printed), then run_automated_simulations runs all of them.
run_automated_testing ==
    \E number \in {"0", "x"} \cup {t \in TypedIntegers : ParseInt(t).raised = ""
                                        /\ ParseInt(t).value <= MaxSimulations},
       amount \in TypedAmounts, algorithm_choice \in {"1", "2", "3", "4", "5", "9"} :
        LET num_simulations   == ParseInt(number)
            investment_amount == ParseFloat(amount)
            algorithms        == Algorithms(algorithm_choice)
        IN IF num_simulations.raised # ""
           THEN Did("run_automated_testing", num_simulations.raised)
                  /\ UNCHANGED test_results
           ELSE IF investment_amount.raised # ""
           THEN Did("run_automated_testing", investment_amount.raised)
                  /\ UNCHANGED test_results
           ELSE LET runs == Len(algorithms) * num_simulations.value
                IN /\ Recorded(test_results) + runs <= MaxTrades
                   /\ \E draws \in [1..runs -> Draws] :
                          test_results' =
                              run_automated_simulations(test_results,
                                  num_simulations.value, investment_amount.value,
                                  algorithms, draws)
                   /\ Did("run_automated_testing", "ran")

\* reset_test_results
reset_test_results ==
    /\ test_results' = NoTrades
    /\ Did("reset_test_results", "reset")

NextLedger ==
    \/ run_test_intragame
    \/ run_test_timeframe
    \/ run_automated_testing
    \/ reset_test_results

SpecLedger == InitLedger /\ [][NextLedger]_vars

RECURSIVE SumOfBankPnl(_, _)
\* The bank_pnl of the first n trades added up in the order of recording.
SumOfBankPnl(trades, n) ==
    IF n = 0 THEN Zero ELSE FAdd(SumOfBankPnl(trades, n - 1), trades[n].bank_pnl)

\* The ledger is consistent: per key, total_pnl is the sum of the bank_pnl
\* of the recorded trades, the k-th trade carries timestamp k, and each
\* trade has bank_pnl = fee - user_pnl with fee = 1% of the investment.
LedgerConsistent ==
    \A key \in LedgerKeys :
        LET trades == test_results[key].trades
        IN /\ test_results[key].total_pnl = SumOfBankPnl(trades, Len(trades))
           /\ \A k \in 1..Len(trades) :
                 /\ trades[k].timestamp = k
                 /\ trades[k].fee = FMul(trades[k].investment, Dec(1, 2))
                 /\ trades[k].bank_pnl = FSub(trades[k].fee, trades[k].user_pnl)

\* A handler that ended in a caught parsing or selection error left the
\* ledger as it was, and reset_test_results left it without trades.
LedgerStep ==
    /\ (probe' # Unset /\ probe'.out \in {"ValueError", "IndexError"})
          => test_results' = test_results
    /\ (probe' # Unset /\ probe'.fn = "reset_test_results")
          => \A key \in LedgerKeys :
                 /\ test_results'[key].trades = <<>>
                 /\ test_results'[key].total_pnl = Zero

\* C30: the ledger stays consistent through any sequence of manual test
\* trades, automated runs and resets: total_pnl is the sum of bank_pnl per
\* key, the k-th trade has timestamp k, bank_pnl = fee - user_pnl with fee =
\* 1% of the investment; a failed parse or selection records nothing; a
\* reset empties every key.
C30_LedgerConsistent == []LedgerConsistent /\ [][LedgerStep]_vars

\* C30 witness: the ledger holds two trades under one key and one under
\* another, a loss of the bank among them, after a selection that failed.
C30_Witness ==
    /\ probe # Unset
    /\ probe.out = "IndexError"
    /\ \E key \in LedgerKeys : Len(test_results[key].trades) = 2
    /\ Len(test_results["intragame"].trades) >= 1
    /\ \E key \in LedgerKeys : \E k \in 1..Len(test_results[key].trades) :
          FLt(test_results[key].trades[k].bank_pnl, Zero)

-----------------------------------------------------------------------------
(* Invocations one after the other on one algorithm object *)

\* The arguments of the repeated invocations: they complete or fail at the
\* projection, the averaging or the scoring.
RepeatArgs ==
    {Args(totals, games, Rebounder, Dec(350, 1), tf, arch) :
        totals \in {GoodTotals, HugeTotals}, games \in 0..MaxGames,
        tf \in {<<"weekly", FALSE>>, <<"monthly", FALSE>>, <<"daily", FALSE>>},
        arch \in {None, "One Dimensional", "Superstars"}}

RepeatCall ==
    \E a \in RepeatArgs :
        /\ pc = "idle"
        /\ Enter(a, "api")

\* The first invocation to be remembered ends: its arguments and its outcome
\* are kept for comparison with the invocations that follow.
Remember ==
    /\ pc \in {"done", "fault"}
    /\ probe = Unset
    /\ probe' = [fn |-> "simulate_timeframe", in |-> args, out |-> Outcome]
    /\ pc' = "idle"
    /\ caller' = ""
    /\ args' = Unset
    /\ locals' = NoLocals
    /\ ret' = Unset
    /\ raised' = NotRaised
    /\ UNCHANGED test_results

NextRepeat ==
    \/ RepeatCall
    \/ Project
    \/ Dispersion
    \/ ActualAvg
    \/ Score
    \/ Adjust
    \/ Return
    \/ Unwind
    \/ Remember

SpecRepeat == Init /\ [][NextRepeat]_vars

\* An invocation was remembered, and a later one with the same arguments has
\* ended.
Repeated ==
    /\ probe # Unset
    /\ probe.fn = "simulate_timeframe"
    /\ pc \in {"done", "fault"}
    /\ args = probe.in

-----------------------------------------------------------------------------
(* Archetype fallback and the two faults of the pipeline *)

\* C7: an archetype tag that is none of the twelve names is no error: the
\* invocation ends exactly as it ends with no archetype, for every timeframe
\* and all other arguments.
C7_UnknownArchetypeIsNone ==
    (pc \in {"done", "fault"} /\ args.player_archetype \notin Archetypes) =>
        Outcome = simulate_timeframe([args EXCEPT !.player_archetype = None])

\* C7 witness: a weekly invocation with the tag "Point Gods" has returned a
\* gain, the result of the same invocation with no archetype.
C7_Witness ==
    /\ pc = "done"
    /\ args.player_archetype = "Point Gods"
    /\ args.timeframe = "weekly"
    /\ FGt(ret.dampened_delta, Zero)
    /\ ret = simulate_timeframe([args EXCEPT !.player_archetype = None]).ret

\* An invocation with a timeframe tag other than weekly, monthly, season.
BadTimeframe == pc # "idle" /\ args.timeframe \notin ValidTimeframes

\* C8: an invocation with a timeframe tag other than weekly, monthly or season
\* fails with the ValueError of the projection stage: no later stage runs,
\* no local is assigned and no result is returned.
C8_BadTimeframeFailsFirst ==
    /\ [](BadTimeframe =>
            /\ pc \in {"project", "fault"}
            /\ locals = NoLocals
            /\ ret = Unset
            /\ pc = "fault" => raised = [exc |-> "ValueError", stage |-> "project"])
    /\ [][(BadTimeframe /\ pc = "project") => pc' = "fault"]_vars

\* C8 witness: the projection stage has raised ValueError for the tag "daily".
C8_Witness ==
    /\ pc = "fault"
    /\ args.timeframe = "daily"
    /\ raised = [exc |-> "ValueError", stage |-> "project"]
    /\ locals = NoLocals

\* An invocation with num_games = 0 and a valid timeframe.
NoGames == pc # "idle" /\ args.num_games = 0 /\ args.timeframe \in ValidTimeframes

\* C9: an invocation with num_games = 0 and a valid timeframe ends in the
\* ZeroDivisionError of the actual-average stage: nothing stops it before,
\* projection and dispersion have completed, and no average, z-score, PPS,
\* DIS, delta or price is computed and no result is returned.
C9_NoGamesFaultsAtAverages ==
    /\ [](NoGames =>
            /\ pc \in {"project", "dispersion", "actual_avg", "fault"}
            /\ ret = Unset
            /\ locals.actual_avg = Unset /\ locals.z_scores = Unset
            /\ locals.pps = Unset /\ locals.dis = Unset
            /\ locals.raw_delta = Unset /\ locals.dampened_delta = Unset
            /\ locals.new_price = Unset /\ locals.price_change_pct = Unset
            /\ pc = "fault" =>
                  /\ raised = [exc |-> "ZeroDivisionError", stage |-> "actual_avg"]
                  /\ locals.projected_stats # Unset
                  /\ locals.std_devs # Unset)
    /\ [][(NoGames /\ pc = "actual_avg") => pc' = "fault"]_vars

\* C9 witness: the actual-average stage has raised ZeroDivisionError for a
\* monthly invocation with no games, after projection and dispersion.
C9_Witness ==
    /\ pc = "fault"
    /\ args.num_games = 0
    /\ args.timeframe = "monthly"
    /\ raised = [exc |-> "ZeroDivisionError", stage |-> "actual_avg"]
    /\ locals.projected_stats # Unset
    /\ locals.std_devs # Unset
    /\ locals.actual_avg = Unset

-----------------------------------------------------------------------------
(* The order of the stages *)

\* The stages in the order of the statements of simulate_timeframe.
StageOrder == <<"project", "dispersion", "actual_avg", "score", "adjust">>

\* The interpreter goes on: an invocation that stands at a stage leaves it.
\* Each of Project, Dispersion, ActualAvg, Score and Adjust has its stage as
\* its only guard and changes pc, so a step that leaves the stage is enabled
\* exactly where one of them is.
Advance ==
    /\ pc \in {StageOrder[i] : i \in 1..5}
    /\ pc' \in {StageOrder[i] : i \in 2..5} \cup {"done", "fault"}
    /\ pc' # pc

\* The invocations with the statements of simulate_timeframe run one after
\* the other without a halt in between.
SpecFair == Init /\ [][Next]_vars /\ WF_pc(Advance)

\* The position of pc in the order: 0 before the call, 6 after the end.
Position(p) ==
    IF p = "idle" THEN 0
    ELSE IF p \in {"done", "fault"} THEN 6
    ELSE CHOOSE i \in 1..5 : StageOrder[i] = p

\* The locals each stage assigns.
AssignedBy(i) ==
    CASE i = 1 -> {"projected_stats"}
      [] i = 2 -> {"std_devs", "default_alphas"}
      [] i = 3 -> {"actual_avg"}
      [] i = 4 -> {"z_scores", "pps", "dis"}
      [] i = 5 -> {"raw_delta", "dampened_delta", "new_price", "price_change_pct"}

\* Each local assigned so far is the value its method gives for the arguments
\* and the locals of earlier stages.
FromEarlierOutputs ==
    /\ locals.projected_stats # Unset =>
           locals.projected_stats =
               calculate_projected_stats(args.season_avg, args.recent_avg,
                   args.timeframe, args.use_2023_stats, args.player_archetype).value
    /\ locals.std_devs # Unset =>
           locals.std_devs =
               calculate_standard_deviations(locals.projected_stats, args.timeframe,
                                             args.player_archetype)
    /\ locals.actual_avg # Unset =>
           locals.actual_avg =
               calculate_actual_averages(args.actual_totals, args.num_games).value
    /\ locals.z_scores # Unset =>
           locals.z_scores =
               calculate_z_scores(locals.actual_avg, locals.projected_stats,
                                  locals.std_devs)
    /\ locals.pps # Unset =>
           locals.pps = calculate_pps(locals.z_scores, args.player_archetype)
    /\ locals.dis # Unset => locals.dis = calculate_dis(locals.pps).value
    /\ locals.raw_delta # Unset =>
           locals.raw_delta = calculate_raw_delta(locals.pps, locals.dis)
    /\ locals.dampened_delta # Unset =>
           locals.dampened_delta =
               apply_dampening(locals.raw_delta, args.timeframe,
                               args.player_archetype).value
    /\ locals.new_price # Unset =>
           /\ locals.new_price =
                  calculate_new_price(args.old_price, locals.dampened_delta).new_price
           /\ locals.price_change_pct =
                  calculate_new_price(args.old_price,
                                      locals.dampened_delta).price_change_pct

\* C11: an invocation runs project, dispersion, actual average, score, adjust
\* in this order, each stage once at most, never back and never again: a stage
\* is followed by the next stage or by the fault; the locals of a stage not
\* yet run are not assigned, and each assigned local is the value its method
\* gives for the arguments and earlier locals; the arguments stay as passed;
\* and every invocation ends, in the PricingResult dict or in an exception.
C11_StagesInOrder ==
    /\ [][/\ pc \in {"done", "fault"} => pc' = "idle"
          /\ pc = "idle" => pc' = "project"
          /\ Position(pc) \in 1..5 =>
                /\ pc' = "fault" \/ Position(pc') = Position(pc) + 1
                /\ args' = args /\ caller' = caller]_vars
    /\ [](pc # "idle" =>
            /\ \A i \in 1..5 : \A l \in AssignedBy(i) :
                   (Position(pc) <= i /\ pc # "fault") => locals[l] = Unset
            /\ FromEarlierOutputs
            /\ pc = "done" <=> ret # Unset
            /\ pc = "done" => ret = PricingResult(args, locals) /\ raised = NotRaised
            /\ pc = "fault" <=> raised # NotRaised)
    /\ (pc = "project") ~> (pc \in {"done", "fault"})

\* C11 witness: an invocation has gone through the five stages and returned
\* the PricingResult of its arguments and locals.
C11_Witness ==
    /\ pc = "done"
    /\ \A i \in 1..5 : \A l \in AssignedBy(i) :
           (args.timeframe = "season" /\ l = "default_alphas") \/ locals[l] # Unset
    /\ ret = PricingResult(args, locals)
    /\ Outcome = simulate_timeframe(args)

-----------------------------------------------------------------------------
(* The projection of an invocation *)

\* The multiplier the timeframe's own chain has for the archetype, in units
\* of 10^-5, and 1.0 where the chain has no branch for it.
OwnMultiplier(timeframe, player_archetype) ==
    LET mult == IF timeframe = "weekly" THEN WeeklyMultiplier(player_archetype)
                ELSE MonthlyMultiplier(player_archetype)
    IN IF mult = 0 THEN 100000 ELSE mult

\* C12: in a weekly or monthly invocation every projected field is
\* 0.5 * season_avg[i] + 0.5 * recent_avg[i] times one multiplier, the one
\* the requested timeframe has for the archetype, or 1.0 where it has none
\* (or there is no archetype): never the other timeframe's multiplier, and
\* none twice.
C12_OwnMultiplierOnce ==
    (locals.projected_stats # Unset /\ args.timeframe \in {"weekly", "monthly"}) =>
        \A i \in 1..7 :
            locals.projected_stats[i] =
                FMul(Blend(args.season_avg, args.recent_avg)[i],
                     Dec(OwnMultiplier(args.timeframe, args.player_archetype), 5))

\* C12 witness: a monthly Superstars invocation has returned points
\* projected with the monthly 1.0212, which is neither the blend, nor the
\* blend times the weekly 1.035, nor the blend times both.
C12_Witness ==
    /\ pc = "done"
    /\ args.timeframe = "monthly"
    /\ args.player_archetype = "Superstars"
    /\ LET blend == Blend(args.season_avg, args.recent_avg)[1]
       IN /\ ret.projected_stats[1] = FMul(blend, Dec(102120, 5))
          /\ ret.projected_stats[1] # blend
          /\ ret.projected_stats[1] # FMul(blend, Dec(103500, 5))
          /\ ret.projected_stats[1] # FMul(FMul(blend, Dec(102120, 5)), Dec(103500, 5))

\* The recent averages an invocation is compared under.
RecentVariants == {Rebounder.recent_avg, Degenerate.recent_avg}

\* C13: in a season invocation the projected vector is season_avg as passed,
\* for every archetype, and the invocation ends the same way, with the same
\* PricingResult field by field, whatever recent_avg and use_2023_stats are.
C13_SeasonPassThrough ==
    /\ (locals.projected_stats # Unset /\ args.timeframe = "season") =>
           locals.projected_stats = args.season_avg
    /\ (pc \in {"done", "fault"} /\ args.timeframe = "season") =>
           \A recent \in RecentVariants, flag \in BOOLEAN :
               Outcome = simulate_timeframe([args EXCEPT !.recent_avg = recent,
                                                         !.use_2023_stats = flag])

\* C13 witness: a season invocation of a Superstars player with recent
\* averages other than the season averages has returned the season averages
\* as projection, and the result of the invocation with other recent
\* averages and the other flag.
C13_Witness ==
    /\ pc = "done"
    /\ args.timeframe = "season"
    /\ args.player_archetype = "Superstars"
    /\ args.recent_avg # args.season_avg
    /\ ret.projected_stats = args.season_avg
    /\ \E recent \in RecentVariants :
           /\ recent # args.recent_avg
           /\ ret = simulate_timeframe(
                        [args EXCEPT !.recent_avg = recent,
                                     !.use_2023_stats = ~args.use_2023_stats]).ret

-----------------------------------------------------------------------------
(* The dispersion coefficients on their own *)

\* The weekly One Dimensional multiplier, 1.0105.
OneDimensionalWeekly == Dec(WeeklyMultiplier("One Dimensional"), 5)

\* The significand of two neighbouring floats just below 2 / 1.0105 whose
\* products with 1.0105 round to the same float (in binary64 they are
\* 1.9792182088075214 and 1.9792182088075216, both taken to 2.0000000000000004).
TieSignificand ==
    CHOOSE n \in Pow2(Prec - 1)..(Pow2(Prec) - 2) :
        FMul(RoundInt(n, 1 - Prec), OneDimensionalWeekly) =
            FMul(RoundInt(n + 1, 1 - Prec), OneDimensionalWeekly)

\* Averages with points one unit in the last place below rebounds.
NearTie ==
    LET v == <<RoundInt(TieSignificand, 1 - Prec), RoundInt(TieSignificand + 1, 1 - Prec),
               FInt(1), Dec(5, 1), Dec(5, 1), Dec(5, 1), Dec(550, 3)>>
    IN [season_avg |-> v, recent_avg |-> v]

InitAlphas ==
    /\ NoFrame
    /\ probe \in {[fn |-> "alphas",
                   in |-> [season_avg |-> p.season_avg, recent_avg |-> p.recent_avg,
                           timeframe |-> tf, player_archetype |-> a],
                   out |-> Unset] :
                     p \in Profiles \cup {NearTie}, tf \in ValidTimeframes,
                     a \in ArchetypeInputs}

\* Steps 1 and 2 of simulate_timeframe up to the choice of the alphas: the
\* blend, the projected stats, and the alphas calculate_standard_deviations
\* takes for them.
LookupAlphas ==
    /\ probe.fn = "alphas"
    /\ probe.out = Unset
    /\ LET projected_stats ==
               calculate_projected_stats(probe.in.season_avg, probe.in.recent_avg,
                   probe.in.timeframe, FALSE, probe.in.player_archetype).value
       IN probe' = [probe EXCEPT !.out =
              [blended |-> Blend(probe.in.season_avg, probe.in.recent_avg),
               projected_stats |-> projected_stats,
               alphas |-> Alphas(projected_stats, probe.in.timeframe,
                                 probe.in.player_archetype)]]
    /\ UNCHANGED <<pc, caller, args, locals, ret, raised, test_results>>

NextAlphas == LookupAlphas

SpecAlphas == InitAlphas /\ [][NextAlphas]_vars

\* The alphas of a timeframe have been looked up for a One Dimensional player.
OneDimensionalLooked(timeframe) ==
    /\ probe # Unset /\ probe.fn = "alphas" /\ probe.out # Unset
    /\ probe.in.timeframe = timeframe
    /\ probe.in.player_archetype = "One Dimensional"

\* The first of the six non-shooting fields of v that holds their maximum.
FirstLargest(v, i) ==
    /\ \A j \in 1..6 : FLe(v[j], v[i])
    /\ \A j \in 1..(i - 1) : FLt(v[j], v[i])

\* Field i alone has 1.08 times its default coefficient in alphas.
BoostedAlone(alphas, defaults, i) ==
    \A j \in 1..7 :
        alphas[StatNames[j]] =
            IF j = i THEN FMul(AsFloats(defaults)[StatNames[j]], Dec(108, 2))
            ELSE AsFloats(defaults)[StatNames[j]]

\* C14 as stated: for a weekly One Dimensional player the signature stat is
\* the largest of points, rebounds, assists, turnovers, stocks,
\* three-pointers of the projected vector, the same field as the largest of
\* the blended vector before the multiplier; that field alone has 1.08 times
\* its weekly default coefficient, the other six have the weekly defaults.
C14_SignatureOfBlend ==
    OneDimensionalLooked("weekly") =>
        \E i \in 1..6 :
            /\ FirstLargest(probe.out.projected_stats, i)
            /\ FirstLargest(probe.out.blended, i)
            /\ BoostedAlone(probe.out.alphas, WeeklyDefaultAlphas, i)

\* C14 amended: the signature stat is the first field that holds the largest
\* of the six values of the projected vector, after the multiplier; that
\* field alone has 1.08 times its weekly default coefficient; and a field
\* with a larger blended value than the signature stat has the same
\* projected value.
C14_SignatureOfProjected ==
    OneDimensionalLooked("weekly") =>
        \E i \in 1..6 :
            /\ FirstLargest(probe.out.projected_stats, i)
            /\ BoostedAlone(probe.out.alphas, WeeklyDefaultAlphas, i)
            /\ \A j \in 1..6 :
                   FGt(probe.out.blended[j], probe.out.blended[i]) =>
                       probe.out.projected_stats[j] = probe.out.projected_stats[i]

\* C14 witness: rebounds are the largest blended and projected value of a
\* weekly One Dimensional player, and the rebound coefficient alone is
\* 0.945 * 1.08.
C14_Witness ==
    /\ OneDimensionalLooked("weekly")
    /\ FirstLargest(probe.out.blended, 2)
    /\ FirstLargest(probe.out.projected_stats, 2)
    /\ probe.out.alphas["reb"] = FMul(Dec(945, 3), Dec(108, 2))
    /\ probe.out.alphas["pts"] = Dec(1418, 3)

\* The default coefficients of a weekly or monthly lookup.
DefaultAlphas(timeframe) ==
    IF timeframe = "weekly" THEN WeeklyDefaultAlphas ELSE MonthlyDefaultAlphas

\* C19 as stated: the One Dimensional lookup is the same at weekly and at
\* monthly granularity: in both the signature stat is the largest of the six
\* non-shooting projected values at call time, that stat alone has 1.08
\* times the timeframe's default coefficient, and every other coefficient is
\* the timeframe's default.
C19_SameLookupBothTimeframes ==
    \A timeframe \in {"weekly", "monthly"} :
        OneDimensionalLooked(timeframe) =>
            \E i \in 1..6 :
                /\ FirstLargest(probe.out.projected_stats, i)
                /\ BoostedAlone(probe.out.alphas, DefaultAlphas(timeframe), i)

\* C19 amended: the One Dimensional lookup differs between the two
\* timeframes: the weekly one raises the coefficient of the largest of the six
\* non-shooting projected values by 1.08 and leaves the others at the weekly
\* defaults; the monthly one returns the same seven coefficients whatever
\* the projected values are, each above its monthly default, and no stat
\* alone is raised by 1.08.
C19_MonthlyTableIsFixed ==
    /\ OneDimensionalLooked("weekly") =>
           \E i \in 1..6 :
               /\ FirstLargest(probe.out.projected_stats, i)
               /\ BoostedAlone(probe.out.alphas, WeeklyDefaultAlphas, i)
    /\ OneDimensionalLooked("monthly") =>
           /\ probe.out.alphas = AsFloats(Milli(890, 593, 593, 602, 602, 602, 77))
           /\ \A k \in Keys :
                  FGt(probe.out.alphas[k], AsFloats(MonthlyDefaultAlphas)[k])
           /\ \A i \in 1..6 :
                  ~BoostedAlone(probe.out.alphas, MonthlyDefaultAlphas, i)

\* C19 witness: the monthly lookup of a One Dimensional player whose largest
\* projected value is rebounds has returned 0.593 for rebounds, not
\* 0.539 * 1.08, and 0.890 for points, not the default 0.809.
C19_Witness ==
    /\ OneDimensionalLooked("monthly")
    /\ FirstLargest(probe.out.projected_stats, 2)
    /\ probe.out.alphas["reb"] = Dec(593, 3)
    /\ probe.out.alphas["reb"] # FMul(Dec(539, 3), Dec(108, 2))
    /\ probe.out.alphas["pts"] = Dec(890, 3)
    /\ probe.out.alphas["pts"] # Dec(809, 3)

\* The alphas of a weekly or monthly lookup have been returned.
AlphasLooked ==
    /\ probe # Unset /\ probe.fn = "alphas" /\ probe.out # Unset
    /\ probe.in.timeframe \in {"weekly", "monthly"}

\* The coefficient calculate_standard_deviations uses for season.
SeasonAlpha(i) == AsFloats(SeasonAlphas)[StatNames[i]]

\* C20 as stated: for each of the six magnitude-scaled stats the season
\* coefficient is no larger than the coefficient the weekly or monthly lookup
\* returns for the stat, for the default tables and for every archetype.
C20_SeasonSmallest ==
    AlphasLooked =>
        \A i \in 1..6 : FLe(SeasonAlpha(i), probe.out.alphas[StatNames[i]])

\* C20 amended: the season coefficient of each of the six stats is no larger
\* than the weekly or monthly one for the default tables and for every
\* archetype but Turnover Prone at the monthly timeframe, whose six
\* coefficients are all smaller than the season ones.
C20_SeasonSmallestButTurnoverProne ==
    AlphasLooked =>
        IF probe.in.timeframe = "monthly" /\ probe.in.player_archetype = "Turnover Prone"
        THEN \A i \in 1..6 : FLt(probe.out.alphas[StatNames[i]], SeasonAlpha(i))
        ELSE \A i \in 1..6 : FLe(SeasonAlpha(i), probe.out.alphas[StatNames[i]])

\* C20 witness: the monthly lookup of a Turnover Prone player has returned
\* 0.769 for points, below the 0.794 of season.
C20_Witness ==
    /\ AlphasLooked
    /\ probe.in.timeframe = "monthly"
    /\ probe.in.player_archetype = "Turnover Prone"
    /\ probe.out.alphas["pts"] = Dec(769, 3)
    /\ FLt(probe.out.alphas["pts"], SeasonAlpha(1))

-----------------------------------------------------------------------------
(* apply_dampening on its own *)

\* The raw deltas run from -MaxTenths/10 to MaxTenths/10 in steps of 0.1.
MaxTenths == 30

\* Raw deltas: the tenths, the powers of two up to 2^BigExp of either sign,
\* and the two largest powers of two of binary64.
RawDeltas ==
    {Dec(n, 1) : n \in (0 - MaxTenths)..MaxTenths}
      \cup {RoundInt(2^k, 0) : k \in 2..BigExp}
      \cup {RoundInt(0 - 2^k, 0) : k \in 2..BigExp}
      \cup {RoundInt(1, MaxExponent - 1), RoundInt(0 - 1, MaxExponent - 1)}

DampeningTimeframes == {"weekly", "monthly", "season", "daily"}

InitDampening ==
    /\ NoFrame
    /\ probe \in {[fn |-> "apply_dampening",
                   in |-> [raw_delta |-> x, timeframe |-> tf, player_archetype |-> a],
                   out |-> Unset] :
                     x \in RawDeltas, tf \in DampeningTimeframes, a \in ArchetypeInputs}

\* apply_dampening(raw_delta, timeframe, player_archetype) runs.
Dampen ==
    /\ probe.fn = "apply_dampening"
    /\ probe.out = Unset
    /\ probe' = [probe EXCEPT !.out =
           apply_dampening(probe.in.raw_delta, probe.in.timeframe,
                           probe.in.player_archetype)]
    /\ UNCHANGED <<pc, caller, args, locals, ret, raised, test_results>>

NextDampening == Dampen

SpecDampening == InitDampening /\ [][NextDampening]_vars

\* C1: apply_dampening is bounded: a raw delta >= 0 maps to a finite value no
\* larger than the timeframe's cap (10 for weekly and monthly, 50 otherwise),
\* and a raw delta < 0 maps to a value strictly between -1 and 0.
C1_DampeningBounded ==
    (probe # Unset /\ probe.fn = "apply_dampening" /\ probe.out # Unset) =>
        /\ probe.out.raised = ""
        /\ IF FGe(probe.in.raw_delta, Zero)
           THEN FLe(probe.out.value, FInt(Cap(probe.in.timeframe)))
           ELSE FLt(FInt(0 - 1), probe.out.value) /\ FLt(probe.out.value, Zero)

\* apply_dampening has answered.
Dampened == probe # Unset /\ probe.fn = "apply_dampening" /\ probe.out # Unset

\* The 0.001 floor of the radicand is active: k * raw_delta**2 >= 0.999.
FloorActive(raw_delta, timeframe, player_archetype) ==
    /\ FGe(raw_delta, Zero)
    /\ FGe(FMul(Dec(GainCoefficient(timeframe, player_archetype), 2), Square(raw_delta)),
           Dec(999, 3))

\* C15: on the gain branch the dampened delta is the cap from a threshold on:
\* wherever the 0.001 floor of the radicand is active (k * raw_delta**2 >=
\* 0.999) apply_dampening returns exactly the cap, 10 for weekly and monthly
\* and 50 for season, however large raw_delta is; on the loss branch it
\* returns a value above -1, however small raw_delta is.
C15_SaturatesAtCap ==
    Dampened =>
        /\ FloorActive(probe.in.raw_delta, probe.in.timeframe, probe.in.player_archetype) =>
               /\ probe.out.raised = ""
               /\ probe.out.value = FInt(Cap(probe.in.timeframe))
        /\ FLt(probe.in.raw_delta, Zero) =>
               /\ probe.out.raised = ""
               /\ FGt(probe.out.value, FInt(0 - 1))

\* C22: the saturation coefficient acts on the gain branch only: for a raw
\* delta < 0 the outcome of apply_dampening is the same for every timeframe
\* and every archetype tag, that of the season rule without archetype; it
\* depends on raw_delta alone.
C22_LossIgnoresTimeframeAndArchetype ==
    (Dampened /\ FLt(probe.in.raw_delta, Zero)) =>
        probe.out = apply_dampening(probe.in.raw_delta, "season", None)

\* C22 witness: a loss has been dampened under the weekly rule of an
\* archetype whose gain coefficient is not the season's.
C22_Witness ==
    /\ Dampened
    /\ FLt(probe.in.raw_delta, Zero)
    /\ probe.in.timeframe = "weekly"
    /\ probe.in.player_archetype = "Versatile"
    /\ probe.out.raised = ""
    /\ FLt(probe.out.value, Zero)

\* C27: for every raw delta >= 0 apply_dampening returns a dampened delta
\* that is at least min(raw_delta, cap): the divisor
\* sqrt(max(1 - k * raw_delta**2, 0.001)) is never greater than 1.
C27_GainAtLeastRaw ==
    (Dampened /\ FGe(probe.in.raw_delta, Zero)) =>
        /\ probe.out.raised = ""
        /\ FGe(probe.out.value,
               FMin(probe.in.raw_delta, FInt(Cap(probe.in.timeframe))))

-----------------------------------------------------------------------------
(* apply_dampening on two raw deltas *)

\* Pairs (lower, upper) of raw deltas, lower < upper: neighbouring tenths
\* from -MaxTenths/10 to MaxTenths/10, neighbouring floats of [0.5, 1) of
\* either sign, and the largest power of two beside 2^BigExp.
OrderedDeltas ==
    {<<Dec(n, 1), Dec(n + 1, 1)>> : n \in (0 - MaxTenths)..(MaxTenths - 1)}
      \cup {<<RoundInt(n, 0 - Prec), RoundInt(n + 1, 0 - Prec)>> :
                n \in Pow2(Prec - 1)..(Pow2(Prec) - 2)}
      \cup {<<RoundInt(0 - (n + 1), 0 - Prec), RoundInt(0 - n, 0 - Prec)>> :
                n \in Pow2(Prec - 1)..(Pow2(Prec) - 2)}
      \cup {<<RoundInt(2^BigExp, 0), RoundInt(1, MaxExponent - 1)>>,
            <<RoundInt(0 - 1, MaxExponent - 1), RoundInt(0 - 2^BigExp, 0)>>}

InitMonotone ==
    /\ NoFrame
    /\ probe \in {[fn |-> "apply_dampening twice",
                   in |-> [lower |-> pair[1], upper |-> pair[2],
                           timeframe |-> tf, player_archetype |-> arch],
                   out |-> Unset] :
                     pair \in OrderedDeltas, tf \in {"weekly", "season"},
                     arch \in {None, "Versatile"}}

\* apply_dampening runs on the lower and on the upper raw delta, under one
\* timeframe and archetype.
DampenBoth ==
    /\ probe.fn = "apply_dampening twice"
    /\ probe.out = Unset
    /\ probe' = [probe EXCEPT !.out =
           [lower |-> apply_dampening(probe.in.lower, probe.in.timeframe,
                                      probe.in.player_archetype),
            upper |-> apply_dampening(probe.in.upper, probe.in.timeframe,
                                      probe.in.player_archetype)]]
    /\ UNCHANGED <<pc, caller, args, locals, ret, raised, test_results>>

NextMonotone == DampenBoth

SpecMonotone == InitMonotone /\ [][NextMonotone]_vars

BothDampened ==
    probe # Unset /\ probe.fn = "apply_dampening twice" /\ probe.out # Unset

\* C25: the dampened delta is non-decreasing in raw_delta over the whole
\* range: of two raw deltas the larger one is given a dampened delta that is
\* no smaller, across the switch of branch at 0, the take-over of the floor
\* and the cap.
C25_DampeningMonotone ==
    BothDampened =>
        /\ probe.out.lower.raised = ""
        /\ probe.out.upper.raised = ""
        /\ FLe(probe.out.lower.value, probe.out.upper.value)

-----------------------------------------------------------------------------
(* Steps 8 and 9 on their own: dampening and new price *)

\* Raw deltas around 0, in tenths.
AdjustDeltas == {Dec(n, 1) : n \in (0 - 3)..3}

InitAdjust ==
    /\ NoFrame
    /\ probe \in {[fn |-> "adjust",
                   in |-> [raw_delta |-> x, timeframe |-> tf, player_archetype |-> a,
                           old_price |-> price],
                   out |-> Unset] :
                     x \in AdjustDeltas, tf \in DampeningTimeframes,
                     a \in ArchetypeInputs, price \in Prices}

\* apply_dampening and calculate_new_price run on a raw delta: the branch of
\* the test raw_delta >= 0, the dampened delta, and the price pair.
Reprice ==
    /\ probe.fn = "adjust"
    /\ probe.out = Unset
    /\ LET dd == apply_dampening(probe.in.raw_delta, probe.in.timeframe,
                                 probe.in.player_archetype)
           np == calculate_new_price(probe.in.old_price, dd.value)
       IN probe' = [probe EXCEPT !.out =
              [branch |-> IF FGe(probe.in.raw_delta, Zero) THEN "gain" ELSE "loss",
               raised |-> dd.raised,
               dampened_delta |-> dd.value,
               new_price |-> np.new_price,
               price_change_pct |-> np.price_change_pct]]
    /\ UNCHANGED <<pc, caller, args, locals, ret, raised, test_results>>

NextAdjust == Reprice

SpecAdjust == InitAdjust /\ [][NextAdjust]_vars

Repriced == probe # Unset /\ probe.fn = "adjust" /\ probe.out # Unset

\* C16: with raw_delta exactly 0 the gain branch is taken and the dampened
\* delta is exactly 0, for every timeframe and archetype; the new price is
\* the old price and the price change is 0 percent.
C16_ZeroDeltaKeepsPrice ==
    (Repriced /\ probe.in.raw_delta = Zero) =>
        /\ probe.out.branch = "gain"
        /\ probe.out.raised = ""
        /\ probe.out.dampened_delta = Zero
        /\ probe.out.new_price = probe.in.old_price
        /\ probe.out.price_change_pct = Zero

\* C16 witness: a raw delta of 0 has left the price 35.0 of a monthly Bench
\* Warmers player where it was.
C16_Witness ==
    /\ Repriced
    /\ probe.in.raw_delta = Zero
    /\ probe.in.timeframe = "monthly"
    /\ probe.in.player_archetype = "Bench Warmers"
    /\ probe.in.old_price = Dec(350, 1)
    /\ probe.out.dampened_delta = Zero
    /\ probe.out.new_price = Dec(350, 1)

-----------------------------------------------------------------------------
(* calculate_dis on its own *)

\* The PPS values run from -MaxPpsTenths/10 to MaxPpsTenths/10 in steps of 0.1.
MaxPpsTenths == 100

\* PPS values: the tenths, and the powers of two up to 2^(BigExp + 10) of
\* either sign.
PpsValues ==
    {Dec(n, 1) : n \in (0 - MaxPpsTenths)..MaxPpsTenths}
      \cup {RoundInt(1, k) : k \in 4..(BigExp + 10)}
      \cup {RoundInt(0 - 1, k) : k \in 4..(BigExp + 10)}

InitDis ==
    /\ NoFrame
    /\ probe \in {[fn |-> "calculate_dis", in |-> [pps |-> x], out |-> Unset] :
                     x \in PpsValues}

\* calculate_dis(pps) runs: its two pools, and the score or the exception.
Imbalance ==
    /\ probe.fn = "calculate_dis"
    /\ probe.out = Unset
    /\ LET d == calculate_dis(probe.in.pps)
       IN probe' = [probe EXCEPT !.out =
              [buys |-> Buys(probe.in.pps), sells |-> Sells(probe.in.pps),
               raised |-> d.raised,
               dis |-> IF d.raised = "" THEN d.value ELSE Unset]]
    /\ UNCHANGED <<pc, caller, args, locals, ret, raised, test_results>>

NextDis == Imbalance

SpecDis == InitDis /\ [][NextDis]_vars

\* calculate_dis has returned a score.
DisReturned ==
    probe # Unset /\ probe.fn = "calculate_dis" /\ probe.out # Unset
        /\ probe.out.raised = ""

\* C28: calculate_dis never divides by zero: for every PPS it returns a
\* score, and the two pools it divides by sum to exactly 100.
C28_DisNeverDividesByZero ==
    (probe # Unset /\ probe.fn = "calculate_dis" /\ probe.out # Unset) =>
        /\ probe.out.raised = ""
        /\ FAdd(probe.out.buys, probe.out.sells) = FInt(100)

\* 0.04 + 0.3 * pps
AffineOf(pps) == FAdd(Dec(4, 2), FMul(Dec(3, 1), pps))

C18_ZeroFavoursSells ==
    (DisReturned /\ probe.in.pps = Zero) =>
        /\ FGt(probe.out.sells, probe.out.buys)
        /\ FLt(probe.out.dis, Zero)

\* C18 amended: at PPS = 0 the +2 and -2 of the pools tilt them toward buys:
\* the buys pool is 52, the sells pool 48, and the score is 4/100, above 0.
C18_ZeroFavoursBuys ==
    (probe # Unset /\ probe.fn = "calculate_dis" /\ probe.out # Unset
        /\ probe.in.pps = Zero) =>
        /\ probe.out.raised = ""
        /\ probe.out.buys = FInt(52)
        /\ probe.out.sells = FInt(48)
        /\ probe.out.dis = FDiv(FInt(4), FInt(100))
        /\ FGt(probe.out.dis, Zero)

\* C18 witness: the score of PPS = 0 has been computed, with more buys than
\* sells.
C18_Witness ==
    /\ DisReturned
    /\ probe.in.pps = Zero
    /\ FGt(probe.out.buys, probe.out.sells)
    /\ FGt(probe.out.dis, Zero)

-----------------------------------------------------------------------------
(* The weight lookups on their own *)

Implementations == {"TimeframeAlgorithm", "WeeklyAlgorithm", "MonthlyAlgorithm"}

\* Archetype tags of a lookup: ArchetypeInputs and more strings that name no
\* archetype.
LookupInputs == ArchetypeInputs \cup {"superstars", "Superstar", "Centers"}

InitWeights ==
    /\ NoFrame
    /\ probe \in {[fn |-> "weights",
                   in |-> [implementation |-> c, player_archetype |-> a],
                   out |-> Unset] : c \in Implementations, a \in LookupInputs}

\* The weight lookup of calculate_pps runs: the dict as written, in
\* thousandths, and the floats it holds.
Lookup ==
    /\ probe.fn = "weights"
    /\ probe.out = Unset
    /\ LET t == LookupWeights(probe.in.implementation, probe.in.player_archetype)
       IN probe' = [probe EXCEPT !.out = [literals |-> t, weights |-> AsFloats(t)]]
    /\ UNCHANGED <<pc, caller, args, locals, ret, raised, test_results>>

NextWeights == Lookup

SpecWeights == InitWeights /\ [][NextWeights]_vars

\* sum(weights.values()): the float Python adds the seven weights up to.
FloatSum(weights) == SumTerms([i \in 1..7 |-> weights[StatNames[i]]], 7, Zero)

RECURSIVE IntSum(_, _)
IntSum(t, n) == IF n = 0 THEN 0 ELSE IntSum(t, n - 1) + t[StatNames[n]]

Looked == probe # Unset /\ probe.fn = "weights" /\ probe.out # Unset

\* C3: for every archetype tag (the twelve names, none, any other string) and
\* every implementation, the seven weights of the lookup sum to 1: to 1000
\* as written, in thousandths, and as floats to 1 within 8 units in the last
\* place of 1.
C3_WeightsSumToOne ==
    Looked =>
        /\ IntSum(probe.out.literals, 7) = 1000
        /\ FLe(FAbs(FSub(FloatSum(probe.out.weights), One)), RoundInt(1, 3 - Prec))

\* C3 witness: the monthly lookup has answered for a string that names no
\* archetype.
C3_Witness ==
    /\ Looked
    /\ probe.in.implementation = "MonthlyAlgorithm"
    /\ probe.in.player_archetype = "Centers"
    /\ probe.out.literals = DefaultWeights

-----------------------------------------------------------------------------
(* calculate_standard_deviations on its own *)

\* Projected vectors: the season averages of the profiles, all zeros, all
\* negative, and one of large values.
ProjectedVectors ==
    {p.season_avg : p \in Profiles}
      \cup {Vec(0, 0, 0, 0, 0, 0, 0), Vec(0 - 50, 0 - 1, 0 - 20, 0 - 3, 0 - 1, 0 - 9, 0 - 100),
            [i \in 1..7 |-> FInt(2^BigExp)]}

InitDispersion ==
    /\ NoFrame
    /\ probe \in {[fn |-> "calculate_standard_deviations",
                   in |-> [projected_stats |-> v, timeframe |-> tf, player_archetype |-> a],
                   out |-> Unset] :
                     v \in ProjectedVectors, tf \in ValidTimeframes, a \in ArchetypeInputs}

\* calculate_standard_deviations(projected_stats, timeframe, player_archetype) runs.
Disperse ==
    /\ probe.fn = "calculate_standard_deviations"
    /\ probe.out = Unset
    /\ probe' = [probe EXCEPT !.out =
           calculate_standard_deviations(probe.in.projected_stats, probe.in.timeframe,
                                         probe.in.player_archetype)]
    /\ UNCHANGED <<pc, caller, args, locals, ret, raised, test_results>>

NextDispersion == Disperse

SpecDispersion == InitDispersion /\ [][NextDispersion]_vars

Dispersed ==
    probe # Unset /\ probe.fn = "calculate_standard_deviations" /\ probe.out # Unset

\* C4: for every projected vector (zero and negative values included), every
\* timeframe and every archetype, calculate_standard_deviations returns a
\* dispersion > 0 for each of the seven stats.
C4_DispersionPositive ==
    Dispersed => \A k \in Keys : FGt(probe.out[k], Zero)

\* C4 witness: the dispersions of a vector with zero and negative values have
\* been computed for a One Dimensional player on the weekly timeframe.
C4_Witness ==
    /\ Dispersed
    /\ probe.in.projected_stats = Degenerate.season_avg
    /\ probe.in.timeframe = "weekly"
    /\ probe.in.player_archetype = "One Dimensional"
    /\ \E i \in 1..6 : FLt(probe.in.projected_stats[i], Zero)
    /\ \E i \in 1..6 : probe.in.projected_stats[i] = Zero

-----------------------------------------------------------------------------
(* The composite score on its own *)

\* Steps 4 and 5 of simulate_timeframe: the PPS of the actual averages.
ScoreOf(actual_avg, projected_stats, std_devs, player_archetype) ==
    calculate_pps(calculate_z_scores(actual_avg, projected_stats, std_devs),
                  player_archetype)

\* The amounts one actual stat is raised by.
Steps == {Dec(1, 1), FInt(1)}

\* actual_avg with stat i raised by step.
Raised(actual_avg, i, step) == [actual_avg EXCEPT ![i] = FAdd(actual_avg[i], step)]

\* Two PPS computations that differ in one actual stat: lower is the actual
\* averages, upper has stat number stat strictly larger.
ScorePairs ==
    {[fn |-> "calculate_pps",
      in |-> [projected_stats |-> v.season_avg,
              std_devs |-> calculate_standard_deviations(v.season_avg, tf, a),
              player_archetype |-> a, stat |-> i,
              lower |-> t, upper |-> Raised(t, i, step)],
      out |-> Unset] :
        v \in {Scorer, Rebounder}, tf \in {"weekly", "season"},
        a \in ArchetypeInputs, i \in 1..7,
        t \in {GoodTotals, PoorTotals, HugeTotals}, step \in Steps}

InitScore ==
    /\ NoFrame
    /\ probe \in {p \in ScorePairs : FLt(p.in.lower[p.in.stat], p.in.upper[p.in.stat])}

\* Both scores are computed.
ScorePair ==
    /\ probe.fn = "calculate_pps"
    /\ probe.out = Unset
    /\ probe' = [probe EXCEPT !.out =
           [lower |-> ScoreOf(probe.in.lower, probe.in.projected_stats,
                              probe.in.std_devs, probe.in.player_archetype),
            upper |-> ScoreOf(probe.in.upper, probe.in.projected_stats,
                              probe.in.std_devs, probe.in.player_archetype)]]
    /\ UNCHANGED <<pc, caller, args, locals, ret, raised, test_results>>

NextScore == ScorePair

SpecScore == InitScore /\ [][NextScore]_vars

Scored == probe # Unset /\ probe.fn = "calculate_pps" /\ probe.out # Unset

\* C5 as stated: with everything else fixed, PPS is strictly increasing in the
\* actual value of each stat but turnovers, and strictly decreasing in actual
\* turnovers, for every archetype.
C5_StrictlyMonotone ==
    Scored =>
        IF StatNames[probe.in.stat] = "to"
        THEN FGt(probe.out.lower, probe.out.upper)
        ELSE FLt(probe.out.lower, probe.out.upper)

\* C5 amended: with everything else fixed, PPS never decreases when the actual
\* value of a stat other than turnovers grows, and never increases when actual
\* turnovers grow, for every archetype.
C5_Monotone ==
    Scored =>
        IF StatNames[probe.in.stat] = "to"
        THEN FGe(probe.out.lower, probe.out.upper)
        ELSE FLe(probe.out.lower, probe.out.upper)

\* C5 witness: more turnovers have lowered the PPS of a Turnover Prone player.
C5_Witness ==
    /\ Scored
    /\ StatNames[probe.in.stat] = "to"
    /\ probe.in.player_archetype = "Turnover Prone"
    /\ FLt(probe.in.lower[4], probe.in.upper[4])
    /\ FLt(probe.out.upper, probe.out.lower)

-----------------------------------------------------------------------------
(* calculate_z_scores on its own *)

\* The projected vectors the z-scores are computed against.
ZProjected == {p.season_avg : p \in Profiles}

\* Actual averages: on projection in every field, in the assists alone, and
\* off projection in every field.
ZActual ==
    ZProjected \cup {[GoodTotals EXCEPT ![3] = Scorer.season_avg[3]],
                     GoodTotals, PoorTotals, HugeTotals}

InitZ ==
    /\ NoFrame
    /\ probe \in {[fn |-> "calculate_z_scores",
                   in |-> [actual_avg |-> t, projected_stats |-> v,
                           std_devs |-> calculate_standard_deviations(v, tf, a)],
                   out |-> Unset] :
                     t \in ZActual, v \in ZProjected, tf \in ValidTimeframes,
                     a \in {None, "One Dimensional", "Versatile", "Bench Warmers"}}

\* calculate_z_scores(actual_avg, projected_stats, std_devs) runs on the
\* dispersion of step 2.
Standardize ==
    /\ probe.fn = "calculate_z_scores"
    /\ probe.out = Unset
    /\ probe' = [probe EXCEPT !.out =
           calculate_z_scores(probe.in.actual_avg, probe.in.projected_stats,
                              probe.in.std_devs)]
    /\ UNCHANGED <<pc, caller, args, locals, ret, raised, test_results>>

NextZ == Standardize

SpecZ == InitZ /\ [][NextZ]_vars

Standardized ==
    probe # Unset /\ probe.fn = "calculate_z_scores" /\ probe.out # Unset

\* C21: the turnover z-score is > 0 exactly when the actual turnovers are
\* below the projected ones, each of the other six z-scores is > 0 exactly
\* when the actual value is above the projected one, and a z-score is 0 when
\* actual and projected are equal.
C21_TurnoverSignInverted ==
    Standardized =>
        \A i \in 1..7 :
            LET z         == probe.out[StatNames[i]]
                actual    == probe.in.actual_avg[i]
                projected == probe.in.projected_stats[i]
            IN /\ FGt(z, Zero) <=> IF StatNames[i] = "to" THEN FLt(actual, projected)
                                                         ELSE FGt(actual, projected)
               /\ actual = projected => z = Zero

\* C21 witness: fewer turnovers than projected and more points than
\* projected have both scored above 0, and assists on projection have
\* scored 0.
C21_Witness ==
    /\ Standardized
    /\ FLt(probe.in.actual_avg[4], probe.in.projected_stats[4])
    /\ FGt(probe.out["to"], Zero)
    /\ FGt(probe.in.actual_avg[1], probe.in.projected_stats[1])
    /\ FGt(probe.out["pts"], Zero)
    /\ probe.in.actual_avg[3] = probe.in.projected_stats[3]
    /\ probe.out["ast"] = Zero

\* C10: on every call path of the menu and testing layer that reaches
\* simulate_timeframe (stored player, profitability test, automated, custom
\* input) the num_games argument is greater than 0.
C10_CallersPassGames ==
    (pc # "idle" /\ caller \in MenuPaths) => args.num_games > 0

\* C2: with an old price > 0, the new price an invocation returns is > 0.
C2_NewPricePositive ==
    (pc = "done" /\ FGt(args.old_price, Zero)) => FGt(ret.new_price, Zero)
=============================================================================
